---- MODULE Spec2Model ----
(***************************************************************************)
(* A model of the analytic core of the NVIDIA GPU visualisation:           *)
(*   - getTierFromModel (utils/tierUtils.js and its copy in App.jsx),      *)
(*   - the CUDA chart's render effect (CudaPlot.jsx): flagship selection,  *)
(*     fallback, normalisation and the row filter, with the legend's       *)
(*     click handlers,                                                     *)
(*   - getAdjustmentMultiplier of the die-area chart (DieAreaPlot.jsx).    *)
(*   - the violins, the price per mm2 and the generation legend of the    *)
(*     die-area chart,                                                     *)
(*   - the VRAM chart (VramPlot.jsx): class filter, console memory levels  *)
(*     and the legend's handlers.                                          *)
(* JavaScript numbers that are ratios are kept as exact fractions          *)
(* <<numerator, denominator>>; a missing number is the value NoNumber.     *)
(***************************************************************************)
EXTENDS Integers, Sequences, FiniteSets, TLC

VARIABLES
    \* ---- tier classification
    modelName,              \* the argument of getTierFromModel (sequence of characters)
    tierResult,             \* its return value, PENDING before the call
    \* ---- CUDA chart (App state and the effect's output)
    gpuData,                \* the static catalogue: a sequence of GPU records
    toggleMode,             \* App: normalised (percentage) view
    specialFlagshipActive,  \* App: series -> "true" | "false" | "undefined"
    activeGenerations,      \* App: series -> "true" | "false" | "undefined"
    showAllCudaGenerations, \* App: the show-all checkbox of the CUDA chart
    cudaStale,              \* a state update is pending: the effect has to run
    cudaProps,              \* the props the last effect run saw (ran = FALSE: none)
    cudaOut,                \* the last effect run: series -> what was drawn
    cudaWarnings,           \* the console.warn diagnostics of the last effect run
    \* ---- die-area chart (economic adjustment)
    inflationData,          \* [cpi_data, multipliers]: year -> number or NoNumber
    medianRealWageData,     \* year -> number or NoNumber
    useCpiAdjustment,       \* DieAreaPlot state
    useRealWageScaling,     \* DieAreaPlot state
    dieStale,               \* the die-area effect has to run
    dieOut,                 \* the last effect run: release year -> {multiplier, type}
    \* ---- die-area chart (violins)
    priceGroups,            \* display series -> the displayPricePerMM2 of its cards
    violinStale,            \* the violins have to be drawn
    violinOut,              \* the last effect run: display series -> what was drawn
    \* ---- VRAM chart (App state and the effect's output)
    consoleData,            \* the console catalogue: a sequence of console records
    selectedClasses,        \* App: class -> BOOLEAN
    showAllClasses,         \* App: the Show All checkbox of the VRAM chart
    showConsoleData,        \* App: the console toggle
    visibleConsolePlatforms,\* App: platform -> BOOLEAN
    memoryAllocationPercentage, \* App: the unified-memory slider, 0..100
    globalScope,            \* the undeclared names the host's global scope binds
    vramStale,              \* a state update is pending: VramPlot has to render
    vramError,              \* the exception of the last render or click, NoError if none
    vramOut,                \* what the effect callback drew last (ran = FALSE: nothing)
    \* ---- the generation legend of the die-area chart
    showAllDieGenerations,  \* App: the show-all checkbox of the die-area chart
    dieGenerations,         \* the series that have a card with die information
    \* ---- die-area chart (price per mm2 of one card)
    dieCard,                \* a GPU record joined with its die information
    useEffectiveDieSize,    \* DieAreaPlot state: the Disabled Die / Full Die toggle
    areaStale,              \* the die-area effect has to process the card
    areaOut                 \* the card's row of processedData (ran = FALSE: none)

vars == <<modelName, tierResult, gpuData, toggleMode, specialFlagshipActive,
          activeGenerations, showAllCudaGenerations, cudaStale, cudaProps, cudaOut,
          cudaWarnings, inflationData, medianRealWageData, useCpiAdjustment, useRealWageScaling,
          dieStale, dieOut, priceGroups, violinStale, violinOut, consoleData,
          selectedClasses, showAllClasses, showConsoleData, visibleConsolePlatforms,
          memoryAllocationPercentage, globalScope, vramStale, vramError, vramOut,
          showAllDieGenerations, dieGenerations, dieCard, useEffectiveDieSize,
          areaStale, areaOut>>

tierVars == <<modelName, tierResult>>
cudaVars == <<gpuData, toggleMode, specialFlagshipActive, activeGenerations,
              showAllCudaGenerations, cudaStale, cudaProps, cudaOut, cudaWarnings>>
dieVars  == <<inflationData, medianRealWageData, useCpiAdjustment, useRealWageScaling,
              dieStale, dieOut>>
violinVars == <<priceGroups, violinStale, violinOut>>
vramVars == <<consoleData, selectedClasses, showAllClasses, showConsoleData,
              visibleConsolePlatforms, memoryAllocationPercentage, globalScope,
              vramStale, vramError, vramOut>>
legendVars == <<showAllDieGenerations, dieGenerations>>
areaVars == <<dieCard, useEffectiveDieSize, areaStale, areaOut>>

\* JavaScript's null / undefined (a missing value)
NULL == "null"
\* no call made yet
PENDING == "pending"

(***************************************************************************)
(* Bounds of the model                                                     *)
(***************************************************************************)
\* longest digit run typed into a model name (a prefix digit can extend it by one)
MaxDigits == 3
\* largest core count of a catalogue record
MaxCores == 2
\* largest value stored in an economic dataset
MaxVal == 2
\* the cards of a display series
MaxSamples == 3

(***************************************************************************)
(* Characters and strings (a string is a sequence of one-character strings)*)
(***************************************************************************)
Digits == {"0", "1", "2", "3", "4", "5", "6", "7", "8", "9"}

DigitVal(c) ==
    CASE c = "0" -> 0 [] c = "1" -> 1 [] c = "2" -> 2 [] c = "3" -> 3 [] c = "4" -> 4
      [] c = "5" -> 5 [] c = "6" -> 6 [] c = "7" -> 7 [] c = "8" -> 8 [] c = "9" -> 9

\* String.prototype.toUpperCase, on the letters the model names use
UpperChar(c) ==
    CASE c = "t" -> "T" [] c = "i" -> "I" [] c = "x" -> "X" [] c = "n" -> "N"
      [] OTHER -> c

ToUpperCase(s) == [i \in 1..Len(s) |-> UpperChar(s[i])]

\* String.prototype.includes
Includes(s, sub) ==
    \E i \in 1..(Len(s) - Len(sub) + 1) : SubSeq(s, i, i + Len(sub) - 1) = sub

(***************************************************************************)
(* getTierFromModel                                                        *)
(***************************************************************************)
\* name.match(/(\d{2,4})/): the leftmost position where two digits start, then
\* greedily up to four digits; <<>> when nothing matches
DigitMatch(name) ==
    LET starts == {i \in 1..(Len(name) - 1) : name[i] \in Digits /\ name[i + 1] \in Digits}
    IN  IF starts = {} THEN <<>>
        ELSE LET i == CHOOSE k \in starts : \A m \in starts : k <= m
                 ends == {j \in (i + 1)..(i + 3) :
                             j <= Len(name) /\ \A k \in i..j : name[k] \in Digits}
                 j == CHOOSE k \in ends : \A m \in ends : m <= k
             IN  SubSeq(name, i, j)

\* a plausible slip: the first two digits of the run instead of the last two
TierNumFirstTwo(numStr) == 10 * DigitVal(numStr[1]) + DigitVal(numStr[2])

\* parseInt(numStr.slice(-2), 10)
TierNum(numStr) ==
    10 * DigitVal(numStr[Len(numStr) - 1]) + DigitVal(numStr[Len(numStr)])

\* the threshold ladder
BaseTier(tierNum) ==
    IF tierNum >= 90 THEN "90"
    ELSE IF tierNum >= 80 THEN "80"
    ELSE IF tierNum >= 70 THEN "70"
    ELSE IF tierNum >= 60 THEN "60"
    ELSE IF tierNum >= 50 THEN "50"
    ELSE IF tierNum >= 30 THEN "30"
    ELSE NULL

\* `${baseTier} Ti`
TiLabel(baseTier) ==
    CASE baseTier = "90" -> "90 Ti" [] baseTier = "80" -> "80 Ti"
      [] baseTier = "70" -> "70 Ti" [] baseTier = "60" -> "60 Ti"
      [] baseTier = "50" -> "50 Ti" [] baseTier = "30" -> "30 Ti"

\* a plausible slip: "TI" anywhere, no space required
HasTiModifierNoSpace(name) == Includes(name, <<"T", "I">>)

\* name.includes(" TI")
HasTiModifier(name) == Includes(name, <<" ", "T", "I">>)

getTierFromModel(m) ==
    LET name == ToUpperCase(m)
        numStr == DigitMatch(name)
    IN  IF numStr = <<>> THEN NULL
        ELSE LET baseTier == BaseTier(TierNum(numStr))
             IN  IF baseTier = NULL THEN NULL
                 ELSE IF HasTiModifier(name) THEN TiLabel(baseTier)
                 ELSE baseTier

\* App.jsx: the tier columns of the charts, flagship to entry level
columnOrder ==
    <<"90 Ti", "90", "80 Ti", "80", "70 Ti", "70", "60 Ti", "60", "50 Ti", "50", "30">>

\* columnOrder.indexOf(tier): -1 when absent (1-based otherwise)
IndexOfColumn(tier) ==
    IF \E i \in 1..Len(columnOrder) : columnOrder[i] = tier
    THEN CHOOSE i \in 1..Len(columnOrder) : columnOrder[i] = tier
    ELSE -1

(***************************************************************************)
(* Numbers                                                                 *)
(***************************************************************************)
\* a numeric field that is null / undefined (real values are >= 0)
NoNumber == 0 - 1
\* a catalogue slot left out of the dataset
Absent == 0 - 2
\* a ratio that is null (a ratio is <<numerator, denominator>>)
NullRatio == <<>>

(***************************************************************************)
(* The catalogue (gpu_data.json): the records of the 2000 and 1600 series  *)
(***************************************************************************)
AllSeries == {"1600", "2000"}

RTX2080Ti == <<"R", "T", "X", " ", "2", "0", "8", "0", " ", "T", "i">>
TitanRTX  == <<"T", "I", "T", "A", "N", " ", "R", "T", "X">>
RTX2080   == <<"R", "T", "X", " ", "2", "0", "8", "0">>
RTX2070   == <<"R", "T", "X", " ", "2", "0", "7", "0">>
GTX1660Ti == <<"G", "T", "X", " ", "1", "6", "6", "0", " ", "T", "i">>
GTX1660S  == <<"G", "T", "X", " ", "1", "6", "6", "0", " ", "S">>
GTX1650   == <<"G", "T", "X", " ", "1", "6", "5", "0">>

Gpu(model, series, cores, flagship, specialFlagship) ==
    IF cores = Absent THEN <<>>
    ELSE <<[model |-> model, series |-> series, cudaCores |-> cores,
            flagship |-> flagship, specialFlagship |-> specialFlagship]>>

CoreValues == {NoNumber} \cup (0..MaxCores)

\* every dataset the model draws: a flagged record of the 2000 series may be
\* missing, have no core count, or any count; its special flagship is the 2080 Ti
\* or the (unclassifiable) Titan; the 1600 series may have flagged records of its own
DataSets ==
    { Gpu(sp, "2000", a, FALSE, TRUE) \o Gpu(RTX2080, "2000", b, TRUE, FALSE)
        \o Gpu(RTX2070, "2000", c, FALSE, FALSE)
        \o Gpu(GTX1660Ti, "1600", d, TRUE, FALSE) \o Gpu(GTX1660S, "1600", e, FALSE, TRUE)
        \o Gpu(GTX1650, "1600", f, FALSE, FALSE) :
      sp \in {RTX2080Ti, TitanRTX},
      a \in CoreValues \cup {Absent}, b \in CoreValues \cup {Absent},
      c \in {NoNumber} \cup (1..MaxCores),
      d \in {Absent, NoNumber, 1}, e \in {Absent, MaxCores},
      f \in CoreValues }

(***************************************************************************)
(* CudaPlot: the render effect                                             *)
(***************************************************************************)
\* Array.from(new Set(gpuData.map(d => d.series)))
Generations(data) == {data[i].series : i \in 1..Len(data)}

\* seriesData.find(d => d.flagship): the index in gpuData of the first match, 0 for
\* undefined
RegularFlagship(data, series) ==
    LET hits == {i \in 1..Len(data) : data[i].series = series /\ data[i].flagship}
    IN  IF hits = {} THEN 0 ELSE CHOOSE i \in hits : \A k \in hits : i <= k

\* seriesData.find(d => d.specialFlagship)
SpecialFlagship(data, series) ==
    LET hits == {i \in 1..Len(data) : data[i].series = series /\ data[i].specialFlagship}
    IN  IF hits = {} THEN 0 ELSE CHOOSE i \in hits : \A k \in hits : i <= k

\* specialFlagshipActive[series] && specialFlagship
UseSpecial(data, sfa, series) ==
    sfa[series] = "true" /\ SpecialFlagship(data, series) # 0

\* flagship2000: the special 2080 Ti when the 2000 toggle is on, else the regular 2080
Flagship2000(data, sfa) ==
    IF UseSpecial(data, sfa, "2000")
    THEN SpecialFlagship(data, "2000")
    ELSE RegularFlagship(data, "2000")

\* a plausible slip: the core count tested for null only
InvalidCoresNullOnly(c) == c = NoNumber

\* cudaCores == null || cudaCores <= 0
InvalidCores(c) == c = NoNumber \/ c <= 0

\* the flagship chosen before the fallback (index in gpuData, 0 for undefined)
SelectedFlagship(data, sfa, series) ==
    LET f2000 == Flagship2000(data, sfa)
    IN  IF series = "1600" /\ f2000 # 0
        THEN IF InvalidCores(data[f2000].cudaCores)
             THEN RegularFlagship(data, series)
             ELSE f2000
        ELSE IF UseSpecial(data, sfa, series)
             THEN SpecialFlagship(data, series)
             ELSE RegularFlagship(data, series)

\* b.cudaCores || 0
CoresOrZero(c) == IF c = NoNumber THEN 0 ELSE c

\* a plausible slip: the sort ascending, so the smallest card comes first
FallbackFlagshipSmallest(data, series) ==
    LET idx == {i \in 1..Len(data) : data[i].series = series}
        low == {i \in idx : \A k \in idx :
                   CoresOrZero(data[i].cudaCores) <= CoresOrZero(data[k].cudaCores)}
    IN  IF idx = {} THEN 0 ELSE CHOOSE i \in low : \A k \in low : i <= k

\* [...seriesData].sort((a, b) => (b.cudaCores || 0) - (a.cudaCores || 0))[0]:
\* the sort is stable, so the first record among those with the largest count
FallbackFlagship(data, series) ==
    LET idx == {i \in 1..Len(data) : data[i].series = series}
        top == {i \in idx : \A k \in idx :
                   CoresOrZero(data[i].cudaCores) >= CoresOrZero(data[k].cudaCores)}
    IN  IF idx = {} THEN 0 ELSE CHOOSE i \in top : \A k \in top : i <= k

\* the selected flagship is missing or has no valid core count
NeedsFallback(data, sfa, series) ==
    LET f == SelectedFlagship(data, sfa, series)
    IN  f = 0 \/ InvalidCores(data[f].cudaCores)

\* a plausible slip: the fallback taken without checking its core count
ResolveFlagshipUnchecked(data, sfa, series) ==
    IF NeedsFallback(data, sfa, series)
    THEN FallbackFlagship(data, series)
    ELSE SelectedFlagship(data, sfa, series)

\* the reference the series is normalised against, 0 when the series is skipped
ResolveFlagship(data, sfa, series) ==
    IF NeedsFallback(data, sfa, series)
    THEN LET fb == FallbackFlagship(data, series)
         IN  IF fb = 0 \/ InvalidCores(data[fb].cudaCores) THEN 0 ELSE fb
    ELSE SelectedFlagship(data, sfa, series)

\* a plausible slip: the ratio without the percentage scaling
NormalizedCoresUnscaled(cores, flagshipCores) ==
    IF cores # NoNumber /\ flagshipCores > 0 THEN <<cores, flagshipCores>> ELSE NullRatio

\* d.cudaCores != null && flagshipCores > 0 ? (d.cudaCores / flagshipCores) * 100 : null
NormalizedCores(cores, flagshipCores) ==
    IF cores # NoNumber /\ flagshipCores > 0
    THEN <<cores * 100, flagshipCores>>
    ELSE NullRatio

\* seriesData.map(...): one row per record of the series, in catalogue order
RECURSIVE MapRows(_, _, _, _)
MapRows(data, series, flagshipCores, i) ==
    IF i > Len(data) THEN <<>>
    ELSE IF data[i].series # series THEN MapRows(data, series, flagshipCores, i + 1)
    ELSE LET tier == getTierFromModel(data[i].model)
         IN  <<[idx |-> i,
                normalizedCores |-> NormalizedCores(data[i].cudaCores, flagshipCores),
                tier |-> tier,
                columnIndex |-> IndexOfColumn(tier)]>>
             \o MapRows(data, series, flagshipCores, i + 1)

\* the predicate of processedData's .filter(...)
KeepRow(data, sfa, active, mode, series, row) ==
    LET d == data[row.idx]
        useSpecial == UseSpecial(data, sfa, series)
        isCurrentSeriesFlagship ==
            (useSpecial /\ d.specialFlagship) \/ (~useSpecial /\ d.flagship)
        is2000FlagshipForReference ==
            /\ mode /\ series = "1600" /\ d.series = "2000"
            /\ (d.flagship \/ d.specialFlagship)
            /\ active["1600"] # "false" /\ active["2000"] # "false"
        isRegularCard == ~d.flagship /\ ~d.specialFlagship
        isSelectedFlagship == series # "1600" /\ isCurrentSeriesFlagship
        hasValidCoreData == d.cudaCores # NoNumber /\ d.cudaCores > 0
        hasValidPosition == row.columnIndex # -1
        hasValidNormalizedData == ~mode \/ row.normalizedCores # NullRatio
    IN  /\ (isRegularCard \/ isSelectedFlagship \/ is2000FlagshipForReference)
        /\ hasValidCoreData
        /\ hasValidNormalizedData
        /\ hasValidPosition

RECURSIVE FilterRows(_, _, _, _, _, _)
FilterRows(data, sfa, active, mode, series, rows) ==
    IF rows = <<>> THEN <<>>
    ELSE (IF KeepRow(data, sfa, active, mode, series, Head(rows))
          THEN <<Head(rows)>> ELSE <<>>)
         \o FilterRows(data, sfa, active, mode, series, Tail(rows))

RECURSIVE RowsOfColumn(_, _)
RowsOfColumn(rows, col) ==
    IF rows = <<>> THEN <<>>
    ELSE (IF Head(rows).columnIndex = col THEN <<Head(rows)>> ELSE <<>>)
         \o RowsOfColumn(Tail(rows), col)

\* .sort((a, b) => a.columnIndex - b.columnIndex): stable, ascending by column
RECURSIVE SortByColumn(_, _)
SortByColumn(rows, col) ==
    IF col > Len(columnOrder) THEN <<>>
    ELSE RowsOfColumn(rows, col) \o SortByColumn(rows, col + 1)

\* one pass of generations.forEach: what the effect draws for `series`
DrawSeries(data, sfa, active, mode, series) ==
    LET flagship == ResolveFlagship(data, sfa, series)
        none == [status |-> "inactive", flagship |-> 0, mapped |-> <<>>, rows |-> <<>>]
    IN  IF active[series] = "false" THEN none
        ELSE IF flagship = 0 THEN [none EXCEPT !.status = "noFlagship"]
        ELSE IF IndexOfColumn(getTierFromModel(data[flagship].model)) = -1
             THEN [none EXCEPT !.status = "unknownTier", !.flagship = flagship]
        ELSE LET mapped == MapRows(data, series, data[flagship].cudaCores, 1)
             IN  [status |-> "drawn", flagship |-> flagship, mapped |-> mapped,
                  rows |-> SortByColumn(
                               FilterRows(data, sfa, active, mode, series, mapped), 1)]

\* the console.warn calls of one pass
WarningsOf(data, sfa, active, series) ==
    IF active[series] = "false" THEN {}
    ELSE LET f2000 == Flagship2000(data, sfa)
             flagship == ResolveFlagship(data, sfa, series)
         IN  (IF series = "1600" /\ f2000 # 0 /\ InvalidCores(data[f2000].cudaCores)
              THEN {[kind |-> "invalid2000Flagship", series |-> series]} ELSE {})
             \cup
             (IF NeedsFallback(data, sfa, series)
              THEN (IF flagship = 0
                    THEN {[kind |-> "noValidFlagship", series |-> series]}
                    ELSE {[kind |-> "usingFallback", series |-> series]})
              ELSE {})
             \cup
             (IF flagship # 0
                 /\ IndexOfColumn(getTierFromModel(data[flagship].model)) = -1
              THEN {[kind |-> "flagshipTierUnknown", series |-> series]} ELSE {})

NoOutput == [s \in AllSeries |->
                [status |-> "absent", flagship |-> 0, mapped |-> <<>>, rows |-> <<>>]]

Undefined == [s \in AllSeries |-> "undefined"]

NoProps == [ran |-> FALSE, specialFlagshipActive |-> Undefined,
            activeGenerations |-> Undefined, toggleMode |-> FALSE]

\* a state update schedules a re-render, whose effect starts by removing the
\* previous drawing (svg.selectAll("*").remove()): no drawing while it is pending
Rerender ==
    /\ cudaStale' = TRUE
    /\ cudaProps' = NoProps
    /\ cudaOut' = NoOutput
    /\ cudaWarnings' = {}

\* the effect without the synchronisation of the two toggles
RenderCudaNoSync ==
    /\ cudaStale
    /\ cudaProps' = [ran |-> TRUE, specialFlagshipActive |-> specialFlagshipActive,
                     activeGenerations |-> activeGenerations, toggleMode |-> toggleMode]
    /\ cudaOut' = [s \in AllSeries |->
                      IF s \in Generations(gpuData)
                      THEN DrawSeries(gpuData, specialFlagshipActive, activeGenerations,
                                      toggleMode, s)
                      ELSE NoOutput[s]]
    /\ cudaWarnings' = UNION {WarningsOf(gpuData, specialFlagshipActive,
                                         activeGenerations, s) :
                                 s \in Generations(gpuData)}
    /\ cudaStale' = FALSE
    /\ UNCHANGED <<gpuData, toggleMode, specialFlagshipActive, activeGenerations,
                   showAllCudaGenerations>>
    /\ UNCHANGED <<tierVars, dieVars, violinVars, vramVars, legendVars, areaVars>>

\* the effect of CudaPlot: synchronise the 1600 toggle with the 2000 toggle, then
\* draw every generation
RenderCuda ==
    /\ cudaStale
    /\ cudaProps' = [ran |-> TRUE, specialFlagshipActive |-> specialFlagshipActive,
                     activeGenerations |-> activeGenerations, toggleMode |-> toggleMode]
    /\ cudaOut' = [s \in AllSeries |->
                      IF s \in Generations(gpuData)
                      THEN DrawSeries(gpuData, specialFlagshipActive, activeGenerations,
                                      toggleMode, s)
                      ELSE NoOutput[s]]
    /\ cudaWarnings' = UNION {WarningsOf(gpuData, specialFlagshipActive,
                                         activeGenerations, s) :
                                 s \in Generations(gpuData)}
    /\ IF specialFlagshipActive["2000"] # specialFlagshipActive["1600"]
       THEN /\ specialFlagshipActive' =
                   [specialFlagshipActive EXCEPT !["1600"] = specialFlagshipActive["2000"]]
            /\ cudaStale' = TRUE
       ELSE /\ specialFlagshipActive' = specialFlagshipActive
            /\ cudaStale' = FALSE
    /\ UNCHANGED <<gpuData, toggleMode, activeGenerations, showAllCudaGenerations>>
    /\ UNCHANGED <<tierVars, dieVars, violinVars, vramVars, legendVars, areaVars>>

(***************************************************************************)
(* App and the CUDA legend: the handlers that change the toggle state      *)
(***************************************************************************)
\* !value of a map entry (undefined is falsy)
Negate(v) == IF v = "true" THEN "false" ELSE "true"

HasSpecial(data, series) == SpecialFlagship(data, series) # 0

\* App's initialising effect: every generation visible, every generation with a
\* special flagship starts on its regular flagship
AppInit ==
    /\ ~cudaStale
    /\ \A s \in AllSeries : activeGenerations[s] = "undefined"
    /\ Len(gpuData) > 0
    /\ activeGenerations' =
           [s \in AllSeries |-> IF s \in Generations(gpuData) THEN "true" ELSE "undefined"]
    /\ specialFlagshipActive' =
           [s \in AllSeries |->
               IF s \in Generations(gpuData) /\ HasSpecial(gpuData, s)
               THEN "false" ELSE "undefined"]
    /\ Rerender
    /\ UNCHANGED <<gpuData, toggleMode, showAllCudaGenerations>>
    /\ UNCHANGED <<tierVars, dieVars, violinVars, vramVars, legendVars, areaVars>>

\* App's initialising effect has filled the map; it runs with the first commit,
\* after CudaPlot's effect and before any click on a legend
Initialised == \E s \in AllSeries : activeGenerations[s] # "undefined"

\* App: the normalised / absolute switch
ToggleModeClick ==
    /\ ~cudaStale
    /\ toggleMode' = ~toggleMode
    /\ Rerender
    /\ UNCHANGED <<gpuData, specialFlagshipActive, activeGenerations,
                   showAllCudaGenerations>>
    /\ UNCHANGED <<tierVars, dieVars, violinVars, vramVars, legendVars, areaVars>>

\* a click on a generation's legend entry (colour box or name)
LegendClick(series) ==
    /\ ~cudaStale
    /\ Initialised
    /\ series \in Generations(gpuData)
    /\ LET newState == [activeGenerations EXCEPT ![series] = Negate(@)]
       IN  /\ activeGenerations' = newState
           /\ showAllCudaGenerations' =
                  (\A gen \in Generations(gpuData) : newState[gen] = "true")
    /\ Rerender
    /\ UNCHANGED <<gpuData, toggleMode, specialFlagshipActive>>
    /\ UNCHANGED <<tierVars, dieVars, violinVars, vramVars, legendVars, areaVars>>

\* a click on the Special / Regular button of a generation that has a special flagship
SpecialToggleClick(series) ==
    /\ ~cudaStale
    /\ series \in Generations(gpuData)
    /\ HasSpecial(gpuData, series)
    /\ specialFlagshipActive' = [specialFlagshipActive EXCEPT ![series] = Negate(@)]
    /\ Rerender
    /\ UNCHANGED <<gpuData, toggleMode, activeGenerations, showAllCudaGenerations>>
    /\ UNCHANGED <<tierVars, dieVars, violinVars, vramVars, legendVars, areaVars>>

\* a click on the "Show All Generations" checkbox of the CUDA chart
ShowAllCudaClick ==
    /\ ~cudaStale
    /\ Initialised
    /\ LET targetState == ~showAllCudaGenerations
       IN  /\ activeGenerations' =
                  [s \in AllSeries |->
                      IF s \in Generations(gpuData)
                      THEN (IF targetState THEN "true" ELSE "false")
                      ELSE "undefined"]
           /\ showAllCudaGenerations' = targetState
    /\ Rerender
    /\ UNCHANGED <<gpuData, toggleMode, specialFlagshipActive>>
    /\ UNCHANGED <<tierVars, dieVars, violinVars, vramVars, legendVars, areaVars>>

(***************************************************************************)
(* Exact fractions <<numerator, denominator>>, kept in lowest terms        *)
(***************************************************************************)
RECURSIVE Gcd(_, _)
Gcd(a, b) == IF b = 0 THEN a ELSE Gcd(b, a % b)

Ratio(n, d) == LET g == Gcd(n, d) IN <<n \div g, d \div g>>
RatMul(x, y) == Ratio(x[1] * y[1], x[2] * y[2])
RatDiv(x, y) == Ratio(x[1] * y[2], x[2] * y[1])
One == <<1, 1>>

(***************************************************************************)
(* DieAreaPlot: getAdjustmentMultiplier                                    *)
(***************************************************************************)
\* the years the economic datasets may hold, and the release years of the cards
Years == {"2020", "2024"}

\* medianRealWageData["2024"] || 373
DefaultBaseRealWage == 373
\* inflationData.cpi_data["2024"] || 313.2
DefaultBaseCPI == <<3132, 10>>

\* a number that is neither undefined nor 0
Truthy(v) == v # NoNumber /\ v # 0

\* a plausible slip: the CPI branch taken whenever the CPI ratio exists
getAdjustmentMultiplierAlwaysCpi(infl, wage, cpiOn, wageOn, year) ==
    IF Truthy(infl.multipliers[year])
    THEN [multiplier |-> Ratio(infl.multipliers[year], 1), type |-> "CPI Adj."]
    ELSE [multiplier |-> One, type |-> "Nominal"]

\* getAdjustmentMultiplier written with one plausible slip: "wageUsesRealWage" (the
\* wage-only branch divides real wages), "bothUsesNominalWage" (the two-toggle branch
\* divides nominal wages) or "unguarded" (the wage-only branch divides without
\* looking at its operands)
AdjustmentWithSlip(infl, wage, cpiOn, wageOn, year, slip) ==
    LET baseRealWage == IF Truthy(wage["2024"]) THEN wage["2024"] ELSE DefaultBaseRealWage
        baseCPI == IF Truthy(infl.cpi_data["2024"])
                   THEN Ratio(infl.cpi_data["2024"], 1) ELSE DefaultBaseCPI
        yearRealWage == wage[year]
        yearCPI == infl.cpi_data[year]
        cpiMultiplier == infl.multipliers[year]
        baseNominalWage == RatMul(Ratio(baseRealWage, 1), RatDiv(baseCPI, <<100, 1>>))
        hasNominal == Truthy(yearRealWage) /\ Truthy(yearCPI)
        yearNominalWage == IF hasNominal
                           THEN RatMul(Ratio(yearRealWage, 1), Ratio(yearCPI, 100))
                           ELSE NullRatio
    IN  IF cpiOn /\ wageOn
        THEN IF Truthy(yearRealWage) /\ yearRealWage > 0
             THEN [multiplier |-> IF slip = "bothUsesNominalWage" /\ hasNominal
                                  THEN RatDiv(baseNominalWage, yearNominalWage)
                                  ELSE Ratio(baseRealWage, yearRealWage),
                   type |-> "Real Wage (to 2024)"]
             ELSE [multiplier |-> One, type |-> "Nominal (Wage Data Missing)"]
        ELSE IF cpiOn /\ ~wageOn
        THEN IF Truthy(cpiMultiplier)
             THEN [multiplier |-> Ratio(cpiMultiplier, 1), type |-> "CPI Adj."]
             ELSE [multiplier |-> One, type |-> "Nominal"]
        ELSE IF ~cpiOn /\ wageOn
        THEN IF hasNominal
             THEN [multiplier |-> IF slip = "wageUsesRealWage"
                                  THEN Ratio(baseRealWage, yearRealWage)
                                  ELSE RatDiv(baseNominalWage, yearNominalWage),
                   type |-> "Nominal Wage (to 2024)"]
             ELSE IF slip = "unguarded"
             THEN [multiplier |-> <<baseNominalWage[1], 0>>,
                   type |-> "Nominal Wage (to 2024)"]
             ELSE [multiplier |-> One, type |-> "Nominal (Wage Data Missing)"]
        ELSE [multiplier |-> One, type |-> "Nominal"]

getAdjustmentMultiplierWageUsesRealWage(infl, wage, cpiOn, wageOn, year) ==
    AdjustmentWithSlip(infl, wage, cpiOn, wageOn, year, "wageUsesRealWage")

getAdjustmentMultiplierBothUsesNominalWage(infl, wage, cpiOn, wageOn, year) ==
    AdjustmentWithSlip(infl, wage, cpiOn, wageOn, year, "bothUsesNominalWage")

getAdjustmentMultiplierUnguarded(infl, wage, cpiOn, wageOn, year) ==
    AdjustmentWithSlip(infl, wage, cpiOn, wageOn, year, "unguarded")

getAdjustmentMultiplier(infl, wage, cpiOn, wageOn, year) ==
    LET baseRealWage == IF Truthy(wage["2024"]) THEN wage["2024"] ELSE DefaultBaseRealWage
        baseCPI == IF Truthy(infl.cpi_data["2024"])
                   THEN Ratio(infl.cpi_data["2024"], 1) ELSE DefaultBaseCPI
        yearRealWage == wage[year]
        yearCPI == infl.cpi_data[year]
        cpiMultiplier == infl.multipliers[year]
        baseNominalWage == RatMul(Ratio(baseRealWage, 1), RatDiv(baseCPI, <<100, 1>>))
        \* yearRealWage && yearCPI ? yearRealWage * (yearCPI / 100) : null
        yearNominalWage == IF Truthy(yearRealWage) /\ Truthy(yearCPI)
                           THEN RatMul(Ratio(yearRealWage, 1), Ratio(yearCPI, 100))
                           ELSE NullRatio
    IN  IF cpiOn /\ wageOn
        THEN IF Truthy(yearRealWage) /\ Truthy(baseRealWage) /\ yearRealWage > 0
             THEN [multiplier |-> Ratio(baseRealWage, yearRealWage),
                   type |-> "Real Wage (to 2024)"]
             ELSE [multiplier |-> One, type |-> "Nominal (Wage Data Missing)"]
        ELSE IF cpiOn /\ ~wageOn
        THEN IF Truthy(cpiMultiplier)
             THEN [multiplier |-> Ratio(cpiMultiplier, 1), type |-> "CPI Adj."]
             ELSE [multiplier |-> One, type |-> "Nominal"]
        ELSE IF ~cpiOn /\ wageOn
        THEN IF yearNominalWage # NullRatio /\ baseNominalWage[1] # 0
                /\ yearNominalWage[1] > 0
             THEN [multiplier |-> RatDiv(baseNominalWage, yearNominalWage),
                   type |-> "Nominal Wage (to 2024)"]
             ELSE [multiplier |-> One, type |-> "Nominal (Wage Data Missing)"]
        ELSE [multiplier |-> One, type |-> "Nominal"]

NoDieOutput == [y \in Years |-> [multiplier |-> NullRatio, type |-> PENDING]]

\* handleAdjustmentToggle(type)
HandleAdjustmentToggle(type) ==
    /\ ~dieStale
    /\ IF type = "cpi"
       THEN useCpiAdjustment' = ~useCpiAdjustment /\ UNCHANGED useRealWageScaling
       ELSE useRealWageScaling' = ~useRealWageScaling /\ UNCHANGED useCpiAdjustment
    /\ dieStale' = TRUE
    /\ dieOut' = NoDieOutput
    /\ UNCHANGED <<inflationData, medianRealWageData>>
    /\ UNCHANGED <<tierVars, cudaVars, violinVars, vramVars, legendVars, areaVars>>

\* the effect of DieAreaPlot: the adjustment of every card's release year
RenderDie ==
    /\ dieStale
    /\ dieOut' = [y \in Years |->
                     getAdjustmentMultiplier(inflationData, medianRealWageData,
                                             useCpiAdjustment, useRealWageScaling, y)]
    /\ dieStale' = FALSE
    /\ UNCHANGED <<inflationData, medianRealWageData, useCpiAdjustment,
                   useRealWageScaling>>
    /\ UNCHANGED <<tierVars, cudaVars, violinVars, vramVars, legendVars, areaVars>>

(***************************************************************************)
(* DieAreaPlot: the violins.  Prices, bandwidths and densities are         *)
(* JavaScript numbers; they are kept in fixed point, Scale ticks to the    *)
(* unit, and the result of every multiplication, division and square root  *)
(* is rounded to the nearest tick, as every floating-point operation       *)
(* rounds to the nearest representable number.                             *)
(***************************************************************************)
Scale == 10 * 100

Abs(a) == IF a < 0 THEN 0 - a ELSE a

\* a / b for b > 0, rounded to the nearest integer (halves away from zero)
RoundDiv(a, b) ==
    LET q == (2 * Abs(a) + b) \div (2 * b)
    IN  IF a < 0 THEN 0 - q ELSE q

\* x * y and x / y of two fixed-point numbers
FMul(x, y) == RoundDiv(x * y, Scale)
FDiv(x, y) == RoundDiv(x * Scale, y)

\* the integer r >= 0 nearest to the square root of n, for lo <= sqrt(n) < hi
RECURSIVE SqrtBetween(_, _, _)
SqrtBetween(n, lo, hi) ==
    IF hi - lo <= 1
    THEN IF n - lo * lo <= (lo + 1) * (lo + 1) - n THEN lo ELSE lo + 1
    ELSE LET mid == (lo + hi) \div 2
         IN  IF mid * mid <= n THEN SqrtBetween(n, mid, hi) ELSE SqrtBetween(n, lo, mid)

\* Math.sqrt of a fixed-point number
Sqrt(x) == SqrtBetween(x * Scale, 0, 40 * Scale)

\* Math.max, Math.min of two numbers
MathMax(a, b) == IF a >= b THEN a ELSE b
MathMin(a, b) == IF a <= b THEN a ELSE b

\* price != null && isFinite(price): NoNumber stands for a price that is no number
IsNumber(v) == v # NoNumber

\* d3-array min and max: the least and the greatest number of the values, NoNumber
\* (undefined) when there is none
min(values) ==
    LET nums == {values[i] : i \in {k \in 1..Len(values) : IsNumber(values[k])}}
    IN  IF nums = {} THEN NoNumber ELSE CHOOSE m \in nums : \A v \in nums : m <= v

max(values) ==
    LET nums == {values[i] : i \in {k \in 1..Len(values) : IsNumber(values[k])}}
    IN  IF nums = {} THEN NoNumber ELSE CHOOSE m \in nums : \A v \in nums : m >= v

\* d3-array mean: the values are added in array order, then divided by their count
RECURSIVE SumFrom(_, _)
SumFrom(values, i) ==
    IF i > Len(values) THEN 0 ELSE values[i] + SumFrom(values, i + 1)

mean(values) ==
    IF Len(values) = 0 THEN NoNumber ELSE RoundDiv(SumFrom(values, 1), Len(values))

\* d3-array variance (Welford's running mean and sum of squares, in array order):
\*   delta = value - mean; mean += delta / ++count; sum += delta * (value - mean)
RECURSIVE Welford(_, _, _, _)
Welford(values, i, runMean, runSum) ==
    IF i > Len(values) THEN runSum
    ELSE LET delta == values[i] - runMean
             newMean == runMean + RoundDiv(delta, i)
         IN  Welford(values, i + 1, newMean, runSum + FMul(delta, values[i] - newMean))

variance(values) ==
    IF Len(values) > 1
    THEN RoundDiv(Welford(values, 1, 0, 0), Len(values) - 1)
    ELSE NoNumber

\* d3-array deviation: v ? Math.sqrt(v) : v
deviation(values) ==
    LET v == variance(values)
    IN  IF Truthy(v) THEN Sqrt(v) ELSE v

\* a plausible slip: the prices left in catalogue order
SortAscendingOmitted(values) == values

\* ascending sort of numbers
RECURSIVE SortAscending(_)
SortAscending(values) ==
    IF Len(values) = 0 THEN <<>>
    ELSE LET m == min(values)
             at == CHOOSE i \in 1..Len(values) : values[i] = m
         IN  <<m>> \o SortAscending(SubSeq(values, 1, at - 1)
                                    \o SubSeq(values, at + 1, Len(values)))

\* d3-array quantile of sorted numbers, p = pNum / pDen, by linear interpolation:
\*   i = (n - 1) * p; i0 = floor(i); value0 + (value1 - value0) * (i - i0)
quantile(sorted, pNum, pDen) ==
    LET n == Len(sorted)
        i0 == ((n - 1) * pNum) \div pDen
        part == ((n - 1) * pNum) % pDen
    IN  IF n = 0 THEN NoNumber
        ELSE IF part = 0 THEN sorted[i0 + 1]
        ELSE sorted[i0 + 1] + RoundDiv((sorted[i0 + 2] - sorted[i0 + 1]) * part, pDen)

median(sorted) == quantile(sorted, 1, 2)

\* d3-array range(start, stop, step): start + i * step for i < ceil((stop - start) / step);
\* empty when the step is 0
range(start, stop, step) ==
    LET n == IF step <= 0 \/ stop <= start THEN 0
             ELSE (stop - start + step - 1) \div step
    IN  [i \in 1..n |-> start + (i - 1) * step]

\* Math.max(0.1, ...): the floor of the bandwidth
MinBandwidth == Scale \div 10
\* (stdDev || 0) * 1.5
BandwidthFactor == (3 * Scale) \div 2
\* const numPointsKDE = 100
numPointsKDE == 100
\* rawMaxDensity * 0.01
DensityFraction == Scale \div 100
\* ... || 0.001
TinyDensity == Scale \div 1000

\* a plausible slip: the bandwidth without its floor
BandwidthNoFloor(validPrices) ==
    LET stdDev == deviation(validPrices)
    IN  FMul(IF Truthy(stdDev) THEN stdDev ELSE 0, BandwidthFactor)

\* Math.max(0.1, (stdDev || 0) * 1.5)
Bandwidth(validPrices) ==
    LET stdDev == deviation(validPrices)
    IN  MathMax(MinBandwidth, FMul(IF Truthy(stdDev) THEN stdDev ELSE 0, BandwidthFactor))

\* Math.max(0, (priceMinKDE || 0) - bandwidth * 2)
YRangeStart(validPrices, bandwidth) ==
    LET priceMinKDE == min(validPrices)
    IN  MathMax(0, (IF Truthy(priceMinKDE) THEN priceMinKDE ELSE 0) - bandwidth * 2)

\* a plausible slip: the end of the range not clamped to the axis
YRangeEndUnclamped(validPrices, bandwidth, yMaxGpu) ==
    LET priceMaxKDE == max(validPrices)
    IN  (IF Truthy(priceMaxKDE) THEN priceMaxKDE ELSE yMaxGpu) + bandwidth * 2

\* Math.min(yMaxGpu, (priceMaxKDE || yMaxGpu) + bandwidth * 2)
YRangeEnd(validPrices, bandwidth, yMaxGpu) ==
    LET priceMaxKDE == max(validPrices)
    IN  MathMin(yMaxGpu, (IF Truthy(priceMaxKDE) THEN priceMaxKDE ELSE yMaxGpu)
                         + bandwidth * 2)

\* the points the density is evaluated at: the range in numPointsKDE steps, or three
\* points around the mean when the range gives fewer than two
YValues(validPrices, bandwidth, yMaxGpu) ==
    LET yRangeStart == YRangeStart(validPrices, bandwidth)
        yRangeEnd == YRangeEnd(validPrices, bandwidth, yMaxGpu)
        yValues == range(yRangeStart, yRangeEnd,
                         RoundDiv(yRangeEnd - yRangeStart, numPointsKDE))
        m == mean(validPrices)
        meanPrice == IF Truthy(m) THEN m ELSE yMaxGpu \div 2
        around == {MathMax(0, meanPrice - Scale), meanPrice,
                   MathMin(yMaxGpu, meanPrice + Scale)}
    IN  IF Len(yValues) >= 2 THEN yValues
        ELSE SortAscending([i \in 1..Cardinality(around) |->
                               CHOOSE a \in around :
                                   Cardinality({b \in around : b < a}) = i - 1])

\* kernelEpanechnikov(k)(v): Math.abs(v /= k) <= 1 ? 0.75 * (1 - v * v) / k : 0
kernelEpanechnikov(k, v) ==
    LET u == FDiv(v, k)
    IN  IF Abs(u) <= Scale
        THEN FDiv(FMul((3 * Scale) \div 4, Scale - FMul(u, u)), k)
        ELSE 0

\* mean(V, v => kernel(x - v))
KernelMean(k, x, V) ==
    mean([j \in 1..Len(V) |-> kernelEpanechnikov(k, x - V[j])])

\* kernelDensityEstimator(kernel, X)(V): X.map(x => [x, mean(V, v => kernel(x - v))])
kernelDensityEstimator(k, X, V) ==
    [i \in 1..Len(X) |-> <<X[i], KernelMean(k, X[i], V)>>]

\* max(density, d => d[1]) || 0.001
MaxDensityOf(density) ==
    LET top == max([i \in 1..Len(density) |-> density[i][2]])
    IN  IF Truthy(top) THEN top ELSE TinyDensity

\* rawMaxDensity * 0.01
DensityThreshold(density) == FMul(MaxDensityOf(density), DensityFraction)

\* density.filter over the points lo..hi: the points with a density of at least the
\* threshold, in their order (the two halves are filtered one after the other)
RECURSIVE SelectFrom(_, _, _, _)
SelectFrom(density, threshold, lo, hi) ==
    IF lo > hi THEN <<>>
    ELSE IF lo = hi
    THEN (IF density[lo][2] >= threshold THEN <<density[lo]>> ELSE <<>>)
    ELSE LET mid == (lo + hi) \div 2
         IN  SelectFrom(density, threshold, lo, mid)
                \o SelectFrom(density, threshold, mid + 1, hi)

\* a plausible slip: the points compared with the maximum itself
ValidDensityPointsAtMaximum(density) ==
    SelectFrom(density, MaxDensityOf(density), 1, Len(density))

\* density.filter(d => ... d[1] >= densityThreshold)
ValidDensityPoints(density) ==
    SelectFrom(density, DensityThreshold(density), 1, Len(density))

\* stats of the inner box and whiskers
NoStats == [computed |-> FALSE, min |-> NoNumber, q1 |-> NoNumber, median |-> NoNumber,
            q3 |-> NoNumber, max |-> NoNumber]

\* the stats object of the inner box and whiskers: q1 and q3 from three samples on
Stats(validPrices) ==
    LET sortedPrices == SortAscending(validPrices)
    IN  [computed |-> TRUE,
         min |-> min(sortedPrices),
         q1 |-> IF Len(sortedPrices) >= 3 THEN quantile(sortedPrices, 1, 4) ELSE NoNumber,
         median |-> median(sortedPrices),
         q3 |-> IF Len(sortedPrices) >= 3 THEN quantile(sortedPrices, 3, 4) ELSE NoNumber,
         max |-> max(sortedPrices)]

\* const maxGpuPrice = max(processedData, d => d.displayPricePerMM2) || 5;
\* const yMaxGpu = Math.ceil((maxGpuPrice || 5) * 1.1)
YMaxGpu(groups) ==
    LET all == UNION {{groups[g][i] : i \in 1..Len(groups[g])} : g \in DOMAIN groups}
        nums == {v \in all : IsNumber(v)}
        top == IF nums = {} THEN NoNumber ELSE CHOOSE m \in nums : \A v \in nums : m >= v
        maxGpuPrice == IF Truthy(top) THEN top ELSE 5 * Scale
        padded == FMul(maxGpuPrice, (11 * Scale) \div 10)
    IN  ((padded + Scale - 1) \div Scale) * Scale

\* gpusInGroup.map(d => d.displayPricePerMM2).filter(price => price != null &&
\*     isFinite(price) && price >= 0 && price <= yMaxGpu)
RECURSIVE ValidPrices(_, _)
ValidPrices(prices, yMaxGpu) ==
    IF Len(prices) = 0 THEN <<>>
    ELSE (IF IsNumber(Head(prices)) /\ Head(prices) >= 0 /\ Head(prices) <= yMaxGpu
          THEN <<Head(prices)>> ELSE <<>>)
         \o ValidPrices(Tail(prices), yMaxGpu)

\* what the loop leaves for one display series
Violin(status, validPrices, bandwidth, yRangeStart, yRangeEnd, density, kept, stats) ==
    [status |-> status, validPrices |-> validPrices, bandwidth |-> bandwidth,
     yRangeStart |-> yRangeStart, yRangeEnd |-> yRangeEnd, density |-> density,
     validDensityPoints |-> kept, stats |-> stats]

NoViolin(status, validPrices) ==
    Violin(status, validPrices, NoNumber, NoNumber, NoNumber, <<>>, <<>>, NoStats)

\* the body of "if (validPrices.length >= 2)": bandwidth, evaluation points, density,
\* threshold filter, and the inner box and whiskers of a violin that is drawn
EstimateAndDraw(validPrices, yMaxGpu) ==
    LET bandwidth == Bandwidth(validPrices)
        yRangeStart == YRangeStart(validPrices, bandwidth)
        yRangeEnd == YRangeEnd(validPrices, bandwidth, yMaxGpu)
        yValues == YValues(validPrices, bandwidth, yMaxGpu)
        density == kernelDensityEstimator(bandwidth, yValues, validPrices)
        kept == ValidDensityPoints(density)
    IN  IF bandwidth <= 0 THEN NoViolin("invalidBandwidth", validPrices)
        ELSE IF Len(yValues) < 2
        THEN Violin("noYValues", validPrices, bandwidth, yRangeStart, yRangeEnd,
                    <<>>, <<>>, NoStats)
        ELSE IF Len(kept) < 2
        THEN Violin("fewDensityPoints", validPrices, bandwidth, yRangeStart, yRangeEnd,
                    density, kept, NoStats)
        ELSE IF MaxDensityOf(kept) <= 0
        THEN Violin("zeroDensity", validPrices, bandwidth, yRangeStart, yRangeEnd,
                    density, kept, NoStats)
        ELSE Violin("violin", validPrices, bandwidth, yRangeStart, yRangeEnd,
                    density, kept, Stats(validPrices))

\* a plausible slip: the estimator entered from one sample on
DrawViolinFromOneSample(prices, yMaxGpu) ==
    LET validPrices == ValidPrices(prices, yMaxGpu)
    IN  IF Len(prices) = 0 THEN NoViolin("empty", validPrices)
        ELSE IF Len(validPrices) < 1 THEN NoViolin("tooFew", validPrices)
        ELSE EstimateAndDraw(validPrices, yMaxGpu)

\* the body of the violin loop for one display series
DrawViolin(prices, yMaxGpu) ==
    LET validPrices == ValidPrices(prices, yMaxGpu)
    IN  IF Len(prices) = 0 THEN NoViolin("empty", validPrices)
        ELSE IF Len(validPrices) < 2 THEN NoViolin("tooFew", validPrices)
        ELSE EstimateAndDraw(validPrices, yMaxGpu)

\* the display series of the x axis that hold cards
DisplaySeries == {"1600/2000", "3000"}

NoViolins == [g \in DisplaySeries |-> NoViolin("pending", <<>>)]

\* the violin loop of the DieAreaPlot effect: every display series in turn
RenderViolins ==
    /\ violinStale
    /\ violinOut' = [g \in DisplaySeries |-> DrawViolin(priceGroups[g], YMaxGpu(priceGroups))]
    /\ violinStale' = FALSE
    /\ UNCHANGED priceGroups
    /\ UNCHANGED <<tierVars, cudaVars, dieVars, vramVars, legendVars, areaVars>>

(***************************************************************************)
(* The model names given to getTierFromModel                               *)
(***************************************************************************)
\* the digits typed into a run: one below, and the lower end of, every bucket
RunDigits == {"0", "2", "3", "5", "6", "7", "8", "9"}

RECURSIVE DigitRuns(_)
DigitRuns(n) ==
    IF n = 0 THEN {<<>>}
    ELSE DigitRuns(n - 1)
         \cup {Append(r, c) : r \in {x \in DigitRuns(n - 1) : Len(x) = n - 1},
                              c \in RunDigits}

\* what precedes the run: nothing, a brand, two digits that lengthen the run, a
\* lone digit, a leading "Ti"
Prefixes == {<<>>, <<"G", "T", "X", " ">>, <<"1", "5">>, <<"5", " ">>, <<"T", "i", " ">>}

\* what follows the run
Suffixes == {<<>>, <<" ", "T", "i">>, <<" ", "t", "i">>, <<"T", "i">>, <<"-", "T", "i">>,
             <<" ", "T", "I", "T", "A", "N">>, <<" ", "9", "0">>}

ModelNames == {p \o r \o x : p \in Prefixes, r \in DigitRuns(MaxDigits), x \in Suffixes}

\* a call of getTierFromModel
Classify ==
    /\ tierResult = PENDING
    /\ tierResult' = getTierFromModel(modelName)
    /\ UNCHANGED <<modelName, cudaVars, dieVars, violinVars, vramVars, legendVars, areaVars>>

(***************************************************************************)
(* The VRAM chart (VramPlot.jsx): the component function, the effect       *)
(* callback it hands to useEffect, and the handlers the callback installs. *)
(* The dependency array of useEffect and the class-legend handlers read    *)
(* the identifier setshowAllClasses, which the module declares nowhere     *)
(* (the prop is setShowAllClasses): it resolves in the host's global scope *)
(* or raises a ReferenceError.  globalScope is the set of such names the   *)
(* host binds (to a function that is not App's setter).                    *)
(***************************************************************************)
NoError == "none"
ReferenceError == "ReferenceError"

Classes == {columnOrder[i] : i \in 1..Len(columnOrder)}

\* console names as they are spelled in the catalogue
PlayStation2 == <<"P", "l", "a", "y", "S", "t", "a", "t", "i", "o", "n", " ", "2">>
PlayStation3 == <<"P", "l", "a", "y", "S", "t", "a", "t", "i", "o", "n", " ", "3">>
PS3Short     == <<"P", "S", "3">>
PlayStation4 == <<"P", "l", "a", "y", "S", "t", "a", "t", "i", "o", "n", " ", "4">>
Xbox360      == <<"X", "b", "o", "x", " ", "3", "6", "0">>
XboxOne      == <<"X", "b", "o", "x", " ", "O", "n", "e">>

\* a missing property of a record
Missing == <<>>

\* a record of console_data.json as it is loaded: memory is <<n>> for the string
\* "n", <<n, d>> for the string "n/d" and <<>> for null; memoryGB and
\* memoryDisplay are not properties of a loaded record
Console(name, platform, launchYear, memory) ==
    [name |-> name, platform |-> platform, launchYear |-> launchYear,
     memory |-> memory, memoryGB |-> Missing, memoryDisplay |-> Missing]

Platforms == {"PlayStation", "Xbox"}

\* the filter of the GPU records by class: the indices that pass
FilteredData(data, selected, showAll) ==
    {i \in 1..Len(data) :
        LET tier == getTierFromModel(data[i].model)
        IN  tier # NULL /\ ((tier \in DOMAIN selected /\ selected[tier]) \/ showAll)}

\* the filter of the console records: the indices that pass
FilteredConsoleData(consoles, visible) ==
    {i \in 1..Len(consoles) :
        /\ consoles[i].launchYear >= 2005
        /\ consoles[i].platform \in DOMAIN visible
        /\ visible[consoles[i].platform]}

\* the forEach over the filtered console records: the two properties are
\* assigned on the record itself
ProcessMemory(d) ==
    IF Len(d.memory) = 2
    THEN [d EXCEPT !.memoryGB = Ratio(d.memory[1], d.memory[2]),
                   !.memoryDisplay = <<d.memory[1], "MB">>]
    ELSE IF Len(d.memory) = 1
    THEN [d EXCEPT !.memoryGB = Ratio(d.memory[1], 1),
                   !.memoryDisplay = <<d.memory[1], "GB">>]
    ELSE [d EXCEPT !.memoryGB = Ratio(0, 1), !.memoryDisplay = <<"N/A">>]

isDedicatedVRAM(name) ==
    \/ Includes(name, <<"P", "S", "1">>)
    \/ Includes(name, <<"P", "S", "2">>)
    \/ Includes(name, <<"P", "S", "3">>)

\* the memory level a console's rectangle is drawn up to (scaledY, read on the
\* y axis)
ScaledMemory(console, percentage) ==
    IF isDedicatedVRAM(console.name)
    THEN console.memoryGB
    ELSE RatMul(console.memoryGB, Ratio(percentage, 100))

\* the classes whose line and points are drawn
GroupedByClass(data, selected, showAll) ==
    LET filteredData == FilteredData(data, selected, showAll)
    IN  {c \in Classes :
            /\ selected[c] \/ showAll
            /\ \E i \in filteredData : getTierFromModel(data[i].model) = c}

NoVram == [ran |-> FALSE, classes |-> {}, legend |-> [c \in Classes |-> FALSE],
           showAllBox |-> FALSE, consoles |-> {}]

\* the component function: its hooks are called; the dependency array is
\* evaluated before useEffect receives the callback
VramPlotRender ==
    /\ vramStale
    /\ "setshowAllClasses" \notin globalScope
    /\ vramStale' = FALSE
    /\ vramError' = ReferenceError
    /\ UNCHANGED <<gpuData, consoleData, selectedClasses, showAllClasses, showConsoleData,
                   visibleConsolePlatforms, memoryAllocationPercentage, vramOut,
                   globalScope>>
    /\ UNCHANGED <<modelName, tierResult, toggleMode, specialFlagshipActive,
                   activeGenerations, showAllCudaGenerations, cudaStale, cudaProps,
                   cudaOut, cudaWarnings, dieVars, violinVars, legendVars,
                   areaVars>>

\* a render that registers the effect, and the effect callback run on the props
VramEffect ==
    /\ vramStale
    /\ "setshowAllClasses" \in globalScope
    /\ LET filteredConsoleData == FilteredConsoleData(consoleData, visibleConsolePlatforms)
           processed == [i \in 1..Len(consoleData) |->
                            IF i \in filteredConsoleData
                            THEN ProcessMemory(consoleData[i]) ELSE consoleData[i]]
       IN  /\ consoleData' = processed
           /\ vramOut' =
                [ran |-> TRUE,
                 classes |-> GroupedByClass(gpuData, selectedClasses, showAllClasses),
                 legend |-> [c \in Classes |-> selectedClasses[c]],
                 showAllBox |-> showAllClasses,
                 consoles |->
                    IF showConsoleData /\ filteredConsoleData # {}
                    THEN {[name |-> processed[i].name,
                           level |-> ScaledMemory(processed[i],
                                                  memoryAllocationPercentage)] :
                              i \in filteredConsoleData}
                    ELSE {}]
    /\ vramStale' = FALSE
    /\ vramError' = NoError
    /\ UNCHANGED <<gpuData, selectedClasses, showAllClasses, showConsoleData,
                   visibleConsolePlatforms, memoryAllocationPercentage, globalScope>>
    /\ UNCHANGED <<modelName, tierResult, toggleMode, specialFlagshipActive,
                   activeGenerations, showAllCudaGenerations, cudaStale, cudaProps,
                   cudaOut, cudaWarnings, dieVars, violinVars, legendVars,
                   areaVars>>

\* the handlers exist once the effect has drawn the chart; a click is handled
\* on the chart of the latest props
VramDrawn == vramOut.ran /\ ~vramStale

VramFrame ==
    /\ vramStale' = TRUE
    /\ UNCHANGED <<gpuData, consoleData, vramError, vramOut, globalScope>>
    /\ UNCHANGED <<modelName, tierResult, toggleMode, specialFlagshipActive,
                   activeGenerations, showAllCudaGenerations, cudaStale, cudaProps,
                   cudaOut, cudaWarnings, dieVars, violinVars, legendVars,
                   areaVars>>

\* a click on a class checkbox: setSelectedClasses is App's setter, the calls of
\* setshowAllClasses go to the host's function
ClassLegendClick(d) ==
    /\ VramDrawn
    /\ selectedClasses' = [selectedClasses EXCEPT ![d] = ~selectedClasses[d]]
    /\ UNCHANGED <<showAllClasses, showConsoleData, visibleConsolePlatforms,
                   memoryAllocationPercentage>>
    /\ VramFrame

\* a click on the Show All checkbox
ShowAllClassesClick ==
    /\ VramDrawn
    /\ selectedClasses' = [c \in Classes |-> ~showAllClasses]
    /\ UNCHANGED <<showAllClasses, showConsoleData, visibleConsolePlatforms,
                   memoryAllocationPercentage>>
    /\ VramFrame

\* a click on the console toggle
ConsoleToggleClick ==
    /\ VramDrawn
    /\ showConsoleData' = ~showConsoleData
    /\ UNCHANGED <<selectedClasses, showAllClasses, visibleConsolePlatforms,
                   memoryAllocationPercentage>>
    /\ VramFrame

\* a click on a platform of the platform legend (drawn with the console data)
PlatformClick(platform) ==
    /\ VramDrawn
    /\ showConsoleData
    /\ visibleConsolePlatforms' =
          [visibleConsolePlatforms EXCEPT ![platform] = ~visibleConsolePlatforms[platform]]
    /\ UNCHANGED <<selectedClasses, showAllClasses, showConsoleData,
                   memoryAllocationPercentage>>
    /\ VramFrame

\* a drag of the slider handle to the position boundedValue
SliderDrag(boundedValue) ==
    /\ VramDrawn
    /\ boundedValue # memoryAllocationPercentage
    /\ memoryAllocationPercentage' = boundedValue
    /\ UNCHANGED <<selectedClasses, showAllClasses, showConsoleData,
                   visibleConsolePlatforms>>
    /\ VramFrame

(***************************************************************************)
(* The die-area chart (DieAreaPlot.jsx): the row of processedData of one   *)
(* card, with the Disabled Die / Full Die toggle                           *)
(***************************************************************************)
RatAdd(x, y) == Ratio(x[1] * y[2] + y[1] * x[2], x[2] * y[2])

\* value || 0
OrZero(v) == IF Truthy(v) THEN v ELSE 0

\* a GPU record with the entry of gpuDieData under its dieName (dieSizeMM2 and
\* fullCudaCores are NoNumber where the entry has none)
DieCard(msrp, cudaCores, dieSizeMM2, fullCudaCores) ==
    [series |-> "2000", releaseYear |-> "2020", msrp |-> msrp, cudaCores |-> cudaCores,
     dieSizeMM2 |-> dieSizeMM2, fullCudaCores |-> fullCudaCores]

\* the filter of processedData
KeepCard(active, card) ==
    /\ active[card.series] # "false"
    /\ Truthy(card.msrp)
    /\ Truthy(card.dieSizeMM2)

DieUtilizationRatioFallbackZero(actualCudaCores, fullCudaCores) ==
    IF fullCudaCores > 0 THEN Ratio(actualCudaCores, fullCudaCores) ELSE Ratio(0, 1)

DieUtilizationRatio(actualCudaCores, fullCudaCores) ==
    IF fullCudaCores > 0 THEN Ratio(actualCudaCores, fullCudaCores) ELSE One

\* dieSizeMM2 * (0.3 + 0.7 * dieUtilizationRatio)
EffectiveDieSize(dieSizeMM2, dieUtilizationRatio) ==
    RatMul(Ratio(dieSizeMM2, 1), RatAdd(<<3, 10>>, RatMul(<<7, 10>>, dieUtilizationRatio)))

NoRow == [ran |-> FALSE, kept |-> FALSE, dieUtilizationRatio |-> NullRatio,
          effectiveDieSize |-> NullRatio, adjustedMsrp |-> NullRatio,
          displayPricePerMM2 |-> NullRatio]

\* the map of processedData
ProcessCard(card, adjustmentMultiplier, useEffective) ==
    LET fullCudaCores == OrZero(card.fullCudaCores)
        actualCudaCores == OrZero(card.cudaCores)
        dieUtilizationRatio == DieUtilizationRatio(actualCudaCores, fullCudaCores)
        effectiveDieSize == EffectiveDieSize(card.dieSizeMM2, dieUtilizationRatio)
        adjustedMsrp == RatMul(Ratio(card.msrp, 1), adjustmentMultiplier)
    IN  [ran |-> TRUE, kept |-> TRUE,
         dieUtilizationRatio |-> dieUtilizationRatio,
         effectiveDieSize |-> effectiveDieSize,
         adjustedMsrp |-> adjustedMsrp,
         displayPricePerMM2 |->
            IF useEffective THEN RatDiv(adjustedMsrp, effectiveDieSize)
            ELSE RatDiv(adjustedMsrp, Ratio(card.dieSizeMM2, 1))]

\* the effect of DieAreaPlot, as far as the card's row goes
RenderArea ==
    /\ areaStale
    /\ areaOut' =
          IF KeepCard(activeGenerations, dieCard)
          THEN ProcessCard(dieCard,
                           getAdjustmentMultiplier(inflationData, medianRealWageData,
                                                   useCpiAdjustment, useRealWageScaling,
                                                   dieCard.releaseYear).multiplier,
                           useEffectiveDieSize)
          ELSE [NoRow EXCEPT !.ran = TRUE]
    /\ areaStale' = FALSE
    /\ UNCHANGED <<dieCard, useEffectiveDieSize>>
    /\ UNCHANGED <<tierVars, cudaVars, dieVars, violinVars, vramVars, legendVars>>

\* a click on the Disabled Die / Full Die button
EffectiveDieSizeClick ==
    /\ ~areaStale
    /\ useEffectiveDieSize' = ~useEffectiveDieSize
    /\ areaStale' = TRUE
    /\ areaOut' = NoRow
    /\ UNCHANGED dieCard
    /\ UNCHANGED <<tierVars, cudaVars, dieVars, violinVars, vramVars, legendVars>>

(***************************************************************************)
(* The generation legend of the die-area chart: it writes the map          *)
(* activeGenerations that the CUDA chart reads                             *)
(***************************************************************************)
\* a click on a generation of the die-area legend (toggleGeneration)
DieToggleGeneration(series) ==
    /\ ~cudaStale
    /\ Initialised
    /\ series \in dieGenerations
    /\ LET newState == [activeGenerations EXCEPT
                           ![series] = IF @ = "false" THEN "true" ELSE "false"]
       IN  /\ activeGenerations' = newState
           /\ showAllDieGenerations' = (\A gen \in dieGenerations : newState[gen] # "false")
    /\ Rerender
    /\ UNCHANGED <<gpuData, toggleMode, specialFlagshipActive, showAllCudaGenerations,
                   dieGenerations>>
    /\ UNCHANGED <<tierVars, dieVars, violinVars, vramVars, areaVars>>

\* a click on the show-all checkbox of the die-area legend (toggleShowAll): the new
\* map has the die-area chart's generations only
DieToggleShowAll ==
    /\ ~cudaStale
    /\ Initialised
    /\ LET targetState == ~showAllDieGenerations
       IN  /\ activeGenerations' =
                  [s \in AllSeries |->
                      IF s \in dieGenerations
                      THEN (IF targetState THEN "true" ELSE "false")
                      ELSE "undefined"]
           /\ showAllDieGenerations' = targetState
    /\ Rerender
    /\ UNCHANGED <<gpuData, toggleMode, specialFlagshipActive, showAllCudaGenerations,
                   dieGenerations>>
    /\ UNCHANGED <<tierVars, dieVars, violinVars, vramVars, areaVars>>

\* the CUDA legend's rendering of a generation's entry (fill and opacity)
LegendEntryActive(active, series) == active[series] = "true"

(***************************************************************************)
(* Specifications                                                          *)
(***************************************************************************)
TierIdle == modelName = <<>> /\ tierResult = PENDING

CudaIdle ==
    /\ gpuData = Gpu(RTX2080, "2000", 1, TRUE, FALSE)
    /\ toggleMode = FALSE
    /\ specialFlagshipActive = Undefined
    /\ activeGenerations = Undefined
    /\ showAllCudaGenerations = TRUE
    /\ cudaStale = FALSE
    /\ cudaProps = NoProps
    /\ cudaOut = NoOutput
    /\ cudaWarnings = {}

DieIdle ==
    /\ inflationData = [cpi_data |-> [y \in Years |-> NoNumber],
                        multipliers |-> [y \in Years |-> NoNumber]]
    /\ medianRealWageData = [y \in Years |-> NoNumber]
    /\ useCpiAdjustment = FALSE
    /\ useRealWageScaling = FALSE
    /\ dieStale = FALSE
    /\ dieOut = NoDieOutput

ViolinIdle ==
    /\ priceGroups = [g \in DisplaySeries |-> <<>>]
    /\ violinStale = FALSE
    /\ violinOut = NoViolins

VramIdle ==
    /\ consoleData = <<>>
    /\ selectedClasses = [c \in Classes |-> FALSE]
    /\ showAllClasses = FALSE
    /\ showConsoleData = FALSE
    /\ visibleConsolePlatforms = [p \in Platforms |-> FALSE]
    /\ memoryAllocationPercentage = 100
    /\ globalScope = {}
    /\ vramStale = FALSE
    /\ vramError = NoError
    /\ vramOut = NoVram

LegendIdle == showAllDieGenerations = TRUE /\ dieGenerations = {}

AreaIdle ==
    /\ dieCard = DieCard(NoNumber, NoNumber, NoNumber, NoNumber)
    /\ useEffectiveDieSize = FALSE
    /\ areaStale = FALSE
    /\ areaOut = NoRow

\* the CUDA chart mounted over any dataset: useState's initial values, the effect
\* still to run
InitCuda ==
    /\ gpuData \in DataSets
    /\ toggleMode = FALSE
    /\ specialFlagshipActive = Undefined
    /\ activeGenerations = Undefined
    /\ showAllCudaGenerations = TRUE
    /\ cudaStale = TRUE
    /\ cudaProps = NoProps
    /\ cudaOut = NoOutput
    /\ cudaWarnings = {}
    /\ TierIdle
    /\ DieIdle
    /\ ViolinIdle
    /\ VramIdle
    /\ LegendIdle
    /\ AreaIdle

NextCuda ==
    \/ RenderCuda
    \/ AppInit
    \/ ToggleModeClick
    \/ \E s \in AllSeries : SpecialToggleClick(s)

SpecCuda == InitCuda /\ [][NextCuda]_vars

\* getTierFromModel called on any model name
InitTier ==
    /\ modelName \in ModelNames
    /\ tierResult = PENDING
    /\ CudaIdle
    /\ DieIdle
    /\ ViolinIdle
    /\ VramIdle
    /\ LegendIdle
    /\ AreaIdle

NextTier == Classify

SpecTier == InitTier /\ [][NextTier]_vars

\* a dataset value: missing, or 0..MaxVal
DataValues == {NoNumber} \cup (0..MaxVal)

\* the die-area chart mounted over any (sparse) economic datasets
InitDie ==
    /\ inflationData \in [cpi_data : [Years -> DataValues],
                          multipliers : [Years -> DataValues]]
    /\ medianRealWageData \in [Years -> DataValues]
    /\ useCpiAdjustment = FALSE
    /\ useRealWageScaling = FALSE
    /\ dieStale = TRUE
    /\ dieOut = NoDieOutput
    /\ TierIdle
    /\ CudaIdle
    /\ ViolinIdle
    /\ VramIdle
    /\ LegendIdle
    /\ AreaIdle

NextDie ==
    \/ RenderDie
    \/ \E type \in {"cpi", "wage"} : HandleAdjustmentToggle(type)

SpecDie == InitDie /\ [][NextDie]_vars

\* the prices a card can show: no number (an msrp that is not one), or one of a few
\* prices per mm2
SamplePrices == {NoNumber, Scale, (13 * Scale) \div 10, 3 * Scale}

RECURSIVE SeqsUpTo(_, _)
SeqsUpTo(S, n) ==
    IF n = 0 THEN {<<>>}
    ELSE LET shorter == SeqsUpTo(S, n - 1)
         IN  shorter \cup {Append(q, v) : q \in {x \in shorter : Len(x) = n - 1}, v \in S}

\* the die-area chart mounted over any cards: one display series with up to MaxSamples
\* cards, a second one with up to two
InitViolin ==
    /\ priceGroups \in {[g \in DisplaySeries |-> IF g = "3000" THEN a ELSE b] :
                            a \in SeqsUpTo(SamplePrices, MaxSamples),
                            b \in SeqsUpTo({Scale, 3 * Scale}, 2)}
    /\ violinStale = TRUE
    /\ violinOut = NoViolins
    /\ TierIdle
    /\ CudaIdle
    /\ DieIdle
    /\ VramIdle
    /\ LegendIdle
    /\ AreaIdle

NextViolin == RenderViolins

SpecViolin == InitViolin /\ [][NextViolin]_vars

\* the GPU catalogue of the VRAM specification: one card in each of six classes
\* and one that has no class
VramCatalogue ==
    Gpu(RTX2080Ti, "2000", 2, TRUE, FALSE) \o Gpu(TitanRTX, "2000", 2, FALSE, TRUE)
        \o Gpu(RTX2080, "2000", 1, FALSE, FALSE) \o Gpu(RTX2070, "2000", 1, FALSE, FALSE)
        \o Gpu(GTX1660Ti, "1600", 1, TRUE, FALSE) \o Gpu(GTX1650, "1600", 1, FALSE, FALSE)

\* the console catalogue: the PlayStation 3 under either spelling of its name, the
\* Xbox One with or without a memory entry
ConsoleCatalogues ==
    {<<Console(PlayStation2, "PlayStation", 2000, <<4, 1024>>),
       Console(Xbox360, "Xbox", 2005, <<512, 1024>>),
       Console(ps3, "PlayStation", 2006, <<256, 1024>>),
       Console(PlayStation4, "PlayStation", 2013, <<8>>),
       Console(XboxOne, "Xbox", 2013, mem)>> :
          ps3 \in {PlayStation3, PS3Short}, mem \in {<<8>>, <<>>}}

\* useState's initial value of selectedClasses in App
InitialSelectedClasses ==
    [c \in Classes |-> c \notin {"70 Ti", "60 Ti", "50 Ti", "30"}]

\* the positions the slider is dragged to, and the class checkboxes that are clicked
SliderValues == {0, 50, 100}
ClickedClasses == {"80 Ti", "60 Ti", "70"}

\* the VRAM chart mounted by App: useState's initial values (the Show All flag
\* as either value of the prop), the first render still to come
InitVram ==
    /\ gpuData = VramCatalogue
    /\ consoleData \in ConsoleCatalogues
    /\ selectedClasses = InitialSelectedClasses
    /\ showAllClasses \in BOOLEAN
    /\ showConsoleData = TRUE
    /\ visibleConsolePlatforms = [p \in Platforms |-> TRUE]
    /\ memoryAllocationPercentage = 100
    /\ globalScope \in {{}, {"setshowAllClasses"}}
    /\ vramStale = TRUE
    /\ vramError = NoError
    /\ vramOut = NoVram
    /\ toggleMode = FALSE
    /\ specialFlagshipActive = Undefined
    /\ activeGenerations = Undefined
    /\ showAllCudaGenerations = TRUE
    /\ cudaStale = FALSE
    /\ cudaProps = NoProps
    /\ cudaOut = NoOutput
    /\ cudaWarnings = {}
    /\ TierIdle
    /\ DieIdle
    /\ ViolinIdle
    /\ LegendIdle
    /\ AreaIdle

NextVram ==
    \/ VramPlotRender
    \/ VramEffect
    \/ \E d \in ClickedClasses : ClassLegendClick(d)
    \/ ShowAllClassesClick
    \/ ConsoleToggleClick
    \/ \E platform \in Platforms : PlatformClick(platform)
    \/ \E boundedValue \in SliderValues : SliderDrag(boundedValue)

SpecVram == InitVram /\ [][NextVram]_vars

\* the cards of the die-area specification: each combination of a missing or present
\* price, core count, die size and full core count
DieCards ==
    {DieCard(msrp, cudaCores, dieSizeMM2, fullCudaCores) :
        msrp \in {NoNumber, 500}, cudaCores \in CoreValues,
        dieSizeMM2 \in {NoNumber, 200, 754}, fullCudaCores \in CoreValues}

\* the die-area chart mounted over one card: useState's initial value of the toggle,
\* the CPI switch off or on over a series with one multiplier
InitArea ==
    /\ dieCard \in DieCards
    /\ useEffectiveDieSize = FALSE
    /\ areaStale = TRUE
    /\ areaOut = NoRow
    /\ inflationData = [cpi_data |-> [y \in Years |-> NoNumber],
                        multipliers |-> [y \in Years |-> IF y = "2020" THEN 2 ELSE NoNumber]]
    /\ medianRealWageData = [y \in Years |-> NoNumber]
    /\ useCpiAdjustment \in BOOLEAN
    /\ useRealWageScaling = FALSE
    /\ dieStale = FALSE
    /\ dieOut = NoDieOutput
    /\ TierIdle
    /\ CudaIdle
    /\ ViolinIdle
    /\ VramIdle
    /\ LegendIdle

NextArea == RenderArea \/ EffectiveDieSizeClick

SpecArea == InitArea /\ [][NextArea]_vars

\* the datasets of the legend specification: two generations with valid flagships,
\* the 1600 series with or without a special flagship of its own
LegendDataSets ==
    {Gpu(RTX2080Ti, "2000", 2, FALSE, TRUE) \o Gpu(RTX2080, "2000", 2, TRUE, FALSE)
        \o Gpu(GTX1660Ti, "1600", 1, TRUE, FALSE) \o Gpu(GTX1660S, "1600", e, FALSE, TRUE) :
     e \in {Absent, 1}}

\* App mounted with the CUDA chart and the die-area chart: useState's initial
\* values; die information for both generations or for the 2000 series only
InitLegend ==
    /\ gpuData \in LegendDataSets
    /\ toggleMode = FALSE
    /\ specialFlagshipActive = Undefined
    /\ activeGenerations = Undefined
    /\ showAllCudaGenerations = TRUE
    /\ cudaStale = TRUE
    /\ cudaProps = NoProps
    /\ cudaOut = NoOutput
    /\ cudaWarnings = {}
    /\ showAllDieGenerations = TRUE
    /\ dieGenerations \in {{"1600", "2000"}, {"2000"}}
    /\ TierIdle
    /\ DieIdle
    /\ ViolinIdle
    /\ VramIdle
    /\ AreaIdle

NextLegend ==
    \/ RenderCuda
    \/ AppInit
    \/ \E s \in AllSeries : LegendClick(s)
    \/ ShowAllCudaClick
    \/ \E s \in AllSeries : SpecialToggleClick(s)
    \/ \E s \in AllSeries : DieToggleGeneration(s)
    \/ DieToggleShowAll

SpecLegend == InitLegend /\ [][NextLegend]_vars

\* the steps that run the CUDA effect: a pending run receives the current props
\* (of the actions of NextLegend, RenderCuda alone takes such a step)
CudaEffectRuns ==
    /\ cudaStale
    /\ cudaProps' = [ran |-> TRUE, specialFlagshipActive |-> specialFlagshipActive,
                     activeGenerations |-> activeGenerations, toggleMode |-> toggleMode]

\* React runs the effect of a committed render: a pending run of the CUDA effect
\* is not postponed for ever
SpecLegendFair == SpecLegend /\ WF_cudaProps(CudaEffectRuns)

(***************************************************************************)
(* Properties of getTierFromModel (checked under SpecTier)                 *)
(***************************************************************************)
Classified == tierResult # PENDING

BaseOfLabel(l) ==
    CASE l \in {"90", "90 Ti"} -> "90" [] l \in {"80", "80 Ti"} -> "80"
      [] l \in {"70", "70 Ti"} -> "70" [] l \in {"60", "60 Ti"} -> "60"
      [] l \in {"50", "50 Ti"} -> "50" [] l \in {"30", "30 Ti"} -> "30"
      [] OTHER -> NULL

HasTiSuffix(l) == l \in {"90 Ti", "80 Ti", "70 Ti", "60 Ti", "50 Ti", "30 Ti"}

\* where two digits start in the name
RunStarts(name) ==
    {i \in 1..(Len(name) - 1) : name[i] \in Digits /\ name[i + 1] \in Digits}

\* the bucket the thresholds give a two-digit number
Bucket(n) ==
    CASE n >= 90 -> "90" [] n >= 80 /\ n < 90 -> "80" [] n >= 70 /\ n < 80 -> "70"
      [] n >= 60 /\ n < 70 -> "60" [] n >= 50 /\ n < 60 -> "50"
      [] n >= 30 /\ n < 50 -> "30" [] OTHER -> NULL

\* C7: getTierFromModel takes the first run of 2 to 4 digits of the name (the
\* leftmost place where two digits start, extended to at most four digits) and
\* maps the number made of the run's last two digits to the base tier by the
\* thresholds; the result is null exactly when there is no such run or that
\* number is below 30.
C7_TierFromLastTwoDigits ==
    Classified =>
        LET starts == RunStarts(modelName)
        IN  IF starts = {} THEN tierResult = NULL
            ELSE \E i \in starts, j \in 2..Len(modelName) :
                    /\ \A k \in starts : i <= k
                    /\ j \in (i + 1)..(i + 3)
                    /\ \A k \in i..j : modelName[k] \in Digits
                    /\ j = i + 3 \/ j = Len(modelName) \/ modelName[j + 1] \notin Digits
                    /\ LET n == 10 * DigitVal(modelName[j - 1]) + DigitVal(modelName[j])
                       IN  /\ BaseOfLabel(tierResult) = Bucket(n)
                           /\ (tierResult = NULL) <=> (n < 30)

\* a classified name whose digit run is longer than four digits
C7_Witness ==
    /\ Classified
    /\ tierResult \notin {NULL, PENDING}
    /\ Len(modelName) >= 5
    /\ \A k \in 1..5 : modelName[k] \in Digits

WordChar(c) == c \notin {" ", "-"}

\* "TI" as a whole token: /\bTI\b/i
WholeTokenTI(name) ==
    \E i \in 1..(Len(name) - 1) :
        /\ UpperChar(name[i]) = "T" /\ UpperChar(name[i + 1]) = "I"
        /\ i = 1 \/ ~WordChar(name[i - 1])
        /\ i + 1 = Len(name) \/ ~WordChar(name[i + 2])

\* a space followed by "TI", whatever comes next
SpaceThenTI(name) ==
    \E i \in 1..(Len(name) - 2) :
        name[i] = " " /\ UpperChar(name[i + 1]) = "T" /\ UpperChar(name[i + 2]) = "I"

\* C8 as stated: the label of a classifiable name carries the " Ti" suffix if and
\* only if the name contains "TI" as a whole token, compared case-insensitively.
C8_TiIffWholeToken ==
    (Classified /\ tierResult # NULL) =>
        (HasTiSuffix(tierResult) <=> WholeTokenTI(modelName))

\* C8 amended: the label of a classifiable name carries the " Ti" suffix if and only
\* if the name contains a space followed by "TI" (case-insensitively), whatever
\* follows; a "TI" that no space precedes gives no suffix.
C8_TiIffSpaceThenTI ==
    (Classified /\ tierResult # NULL) =>
        (HasTiSuffix(tierResult) <=> SpaceThenTI(modelName))

\* a name labelled " Ti" although its "TI" is the start of a longer word
C8_Witness ==
    /\ Classified
    /\ HasTiSuffix(tierResult)
    /\ ~WholeTokenTI(modelName)

(***************************************************************************)
(* Properties of the CUDA chart's effect (checked under SpecCuda).  They   *)
(* relate the catalogue, the props the last effect run saw (cudaProps) and *)
(* what that run drew (cudaOut, cudaWarnings).                             *)
(***************************************************************************)
Ran == cudaProps.ran

\* the generations of the catalogue the last run did not skip as inactive
Processed == {s \in Generations(gpuData) : cudaProps.activeGenerations[s] # "false"}

RecordsOf(series) == {i \in 1..Len(gpuData) : gpuData[i].series = series}

Positive(i) == gpuData[i].cudaCores # NoNumber /\ gpuData[i].cudaCores > 0

Elements(seq) == {seq[k] : k \in 1..Len(seq)}

\* C1: in the normalised view, for every generation that is drawn, each retained
\* record's normalised metric equals (cudaCores / F) * 100 with F > 0 the core count
\* of the generation's reference flagship; the reference flagship's own metric is
\* exactly 100; a record without a core count gets null (no ratio with a zero or
\* missing divisor is ever formed).
C1_NormalizedAgainstFlagship ==
    (Ran /\ cudaProps.toggleMode) =>
        \A s \in Processed :
            cudaOut[s].status = "drawn" =>
                LET F == gpuData[cudaOut[s].flagship].cudaCores
                IN  /\ F # NoNumber /\ F > 0
                    /\ \A r \in Elements(cudaOut[s].rows) :
                          /\ r.normalizedCores # NullRatio
                          /\ r.normalizedCores[2] > 0
                          /\ r.normalizedCores[1] * F
                                = gpuData[r.idx].cudaCores * 100 * r.normalizedCores[2]
                    /\ \A m \in Elements(cudaOut[s].mapped) :
                          /\ (m.idx = cudaOut[s].flagship
                                => m.normalizedCores[1] = 100 * m.normalizedCores[2])
                          /\ ((gpuData[m.idx].cudaCores = NoNumber)
                                <=> (m.normalizedCores = NullRatio))
                          /\ (m.normalizedCores # NullRatio => m.normalizedCores[2] > 0)

\* a drawn generation, in the normalised view, with its flagship at 100, another
\* retained record at another percentage and a record without a core count
C1_Witness ==
    /\ Ran /\ cudaProps.toggleMode
    /\ \E s \in Processed :
          /\ cudaOut[s].status = "drawn"
          /\ \E r \in Elements(cudaOut[s].rows) :
                r.idx = cudaOut[s].flagship /\ r.normalizedCores[1] = 100 * r.normalizedCores[2]
          /\ \E r \in Elements(cudaOut[s].rows) :
                r.normalizedCores[1] # 100 * r.normalizedCores[2]
          /\ \E m \in Elements(cudaOut[s].mapped) : m.normalizedCores = NullRatio

\* the 2000 series' toggle-selected flagship is missing or has no valid core count
NoOverride(series) ==
    \/ series # "1600"
    \/ LET special == {i \in RecordsOf("2000") : gpuData[i].specialFlagship}
           regular == {i \in RecordsOf("2000") : gpuData[i].flagship}
           chosen == IF cudaProps.specialFlagshipActive["2000"] = "true" /\ special # {}
                     THEN special ELSE regular
       IN  \A i \in chosen : ~Positive(i)

\* C2 as stated: when the override does not supply the reference, the reference is
\* the generation's special-flagship record if its toggle is set and such a record
\* exists, and otherwise the record marked as flagship (whenever that record has a
\* valid core count, so that no fallback replaces it).
C2_SpecialElseFlagship ==
    Ran =>
        \A s \in Processed :
            NoOverride(s) =>
                LET special == {i \in RecordsOf(s) : gpuData[i].specialFlagship}
                    regular == {i \in RecordsOf(s) : gpuData[i].flagship}
                    chosen == IF cudaProps.specialFlagshipActive[s] = "true" /\ special # {}
                              THEN special ELSE regular
                IN  \A i \in chosen : Positive(i) => cudaOut[s].flagship = i

\* C3 as stated: the 1600 series is normalised against the flagship that flagship
\* resolution yields for the 2000 series (its toggle and its fallback chain
\* respected), whenever that record has a valid core count.
C3_OverrideUsesSourceFlagship ==
    (Ran /\ {"1600", "2000"} \subseteq Processed) =>
        ((cudaOut["2000"].flagship # 0 /\ Positive(cudaOut["2000"].flagship))
            => cudaOut["1600"].flagship = cudaOut["2000"].flagship)

\* the largest core count of a generation (missing counts as 0)
MaxCoresOf(series) ==
    LET counts == {CoresOrZero(gpuData[i].cudaCores) : i \in RecordsOf(series)}
    IN  CHOOSE c \in counts : \A k \in counts : k <= c

\* C4: if override, special-flagship and flagship selection yield no record, or one
\* whose core count is null or <= 0, the reference is a record of that generation
\* with the generation's maximum core count, provided that maximum is > 0 (and the
\* generation is skipped when it is not).
C4_FallbackIsMaximum ==
    Ran =>
        \A s \in Processed :
            NeedsFallback(gpuData, cudaProps.specialFlagshipActive, s) =>
                IF MaxCoresOf(s) > 0
                THEN /\ cudaOut[s].flagship \in RecordsOf(s)
                     /\ gpuData[cudaOut[s].flagship].cudaCores = MaxCoresOf(s)
                ELSE cudaOut[s].flagship = 0

\* a generation whose reference is the fallback, with a smaller positive record beside it
C4_Witness ==
    /\ Ran
    /\ \E s \in Processed :
          /\ [kind |-> "usingFallback", series |-> s] \in cudaWarnings
          /\ cudaOut[s].flagship \in RecordsOf(s)
          /\ \E i \in RecordsOf(s) :
                Positive(i) /\ gpuData[i].cudaCores < gpuData[cudaOut[s].flagship].cudaCores

NoPositiveRecord(series) == \A i \in RecordsOf(series) : ~Positive(i)

MissingFlagshipDiagnostic(series) ==
    [kind |-> "noValidFlagship", series |-> series] \in cudaWarnings

\* every other generation that has a positive record was given a reference
OthersProcessed(series) ==
    \A t \in Processed \ {series} : ~NoPositiveRecord(t) => cudaOut[t].flagship # 0

C6_OnlyUnclassifiableExcluded ==
    Ran =>
        \A s \in Processed :
            cudaOut[s].flagship # 0 =>
                \A i \in RecordsOf(s) :
                    (/\ ~gpuData[i].flagship /\ ~gpuData[i].specialFlagship
                     /\ Positive(i)
                     /\ IndexOfColumn(getTierFromModel(gpuData[i].model)) # -1)
                        => \E r \in Elements(cudaOut[s].rows) : r.idx = i

(***************************************************************************)
(* Properties of getAdjustmentMultiplier (checked under SpecDie)           *)
(***************************************************************************)
\* C9: with both toggles off the multiplier is 1 and the kind Nominal for every
\* year, whatever the datasets hold.
C9_NominalWhenBothOff ==
    (~dieStale /\ ~useCpiAdjustment /\ ~useRealWageScaling) =>
        \A y \in Years : dieOut[y] = [multiplier |-> One, type |-> "Nominal"]

\* both toggles off (again, after having been on) over datasets that hold a CPI
\* ratio other than 1 and wage data for the year
C9_Witness ==
    /\ ~dieStale /\ ~useCpiAdjustment /\ ~useRealWageScaling
    /\ \E y \in Years :
          /\ inflationData.multipliers[y] > 1
          /\ medianRealWageData[y] > 0 /\ medianRealWageData[y] # medianRealWageData["2024"]
          /\ inflationData.cpi_data[y] > 0
          /\ dieOut[y].multiplier = One

\* C10 as stated: with only the CPI toggle on, the multiplier is the CPI ratio stored
\* for the year; when none is stored the multiplier is 1 and the result is flagged
\* as degraded, distinguishable from the Nominal result of both toggles off.
C10_CpiOnlyFlagsMissingRatio ==
    (~dieStale /\ useCpiAdjustment /\ ~useRealWageScaling) =>
        \A y \in Years :
            /\ (Truthy(inflationData.multipliers[y])
                  => dieOut[y].multiplier = Ratio(inflationData.multipliers[y], 1))
            /\ (inflationData.multipliers[y] = NoNumber
                  => (dieOut[y].multiplier = One /\ dieOut[y].type # "Nominal"))

\* the base-year (2024) values the function divides by: the dataset's entry, or the
\* built-in default when the dataset has none
BaseRealWageOf(wage) == IF Truthy(wage["2024"]) THEN wage["2024"] ELSE DefaultBaseRealWage

BaseCpiOf(infl) ==
    IF Truthy(infl.cpi_data["2024"]) THEN <<infl.cpi_data["2024"], 1>> ELSE DefaultBaseCPI

Degraded(result) == result.multiplier = One /\ result.type = "Nominal (Wage Data Missing)"

\* C11: with only the wage toggle on, the multiplier equals (base-year real wage *
\* base-year CPI / 100) / (year's real wage * year's CPI / 100); when the year's wage
\* or CPI value is missing the multiplier is 1 and the result is flagged as degraded.
C11_WageOnlyNominalWageRatio ==
    (~dieStale /\ ~useCpiAdjustment /\ useRealWageScaling) =>
        \A y \in Years :
            LET yw == medianRealWageData[y]
                yc == inflationData.cpi_data[y]
                bw == BaseRealWageOf(medianRealWageData)
                bc == BaseCpiOf(inflationData)
                m  == dieOut[y].multiplier
            IN  /\ (Truthy(yw) /\ Truthy(yc)) =>
                      /\ m # NullRatio /\ m[2] > 0
                      /\ m[1] * (yw * yc) * bc[2] = m[2] * (bw * bc[1])
                      /\ dieOut[y].type = "Nominal Wage (to 2024)"
                /\ (yw = NoNumber \/ yc = NoNumber) => Degraded(dieOut[y])

\* only the wage toggle on: one year adjusted by a ratio other than 1 in which the
\* CPI takes part, another year without wage data
C11_Witness ==
    /\ ~dieStale /\ ~useCpiAdjustment /\ useRealWageScaling
    /\ \E y \in Years :
          /\ Truthy(medianRealWageData[y]) /\ Truthy(inflationData.cpi_data[y])
          /\ inflationData.cpi_data[y] > 1
          /\ dieOut[y].type = "Nominal Wage (to 2024)"
          /\ dieOut[y].multiplier # One
    /\ \E y \in Years : medianRealWageData[y] = NoNumber /\ Degraded(dieOut[y])

\* C12: with both toggles on, the multiplier equals base-year real wage / year's real
\* wage; when the year's real wage is missing the multiplier is 1 and the result is
\* flagged as degraded.
C12_BothRealWageRatio ==
    (~dieStale /\ useCpiAdjustment /\ useRealWageScaling) =>
        \A y \in Years :
            LET yw == medianRealWageData[y]
                bw == BaseRealWageOf(medianRealWageData)
                m  == dieOut[y].multiplier
            IN  /\ Truthy(yw) =>
                      /\ m # NullRatio /\ m[2] > 0
                      /\ m[1] * yw = m[2] * bw
                      /\ dieOut[y].type = "Real Wage (to 2024)"
                /\ yw = NoNumber => Degraded(dieOut[y])

\* both toggles on: a year whose real wage differs from the base year's, with CPI
\* data present that must not enter the ratio
C12_Witness ==
    /\ ~dieStale /\ useCpiAdjustment /\ useRealWageScaling
    /\ \E y \in Years :
          /\ Truthy(medianRealWageData[y]) /\ Truthy(medianRealWageData["2024"])
          /\ medianRealWageData[y] # medianRealWageData["2024"]
          /\ Truthy(inflationData.cpi_data[y]) /\ Truthy(inflationData.cpi_data["2024"])
          /\ inflationData.cpi_data[y] # inflationData.cpi_data["2024"]
          /\ dieOut[y].type = "Real Wage (to 2024)"
          /\ dieOut[y].multiplier # One

\* the data the selected mode needs for the year is missing
NeededDataMissing(y) ==
    \/ useCpiAdjustment /\ useRealWageScaling /\ medianRealWageData[y] = NoNumber
    \/ useCpiAdjustment /\ ~useRealWageScaling /\ inflationData.multipliers[y] = NoNumber
    \/ /\ ~useCpiAdjustment /\ useRealWageScaling
       /\ (medianRealWageData[y] = NoNumber \/ inflationData.cpi_data[y] = NoNumber)

\* C13: for every year, every toggle combination and every sparse dataset the
\* function returns a multiplier that is a finite, non-null number, and the
\* multiplier is exactly 1 whenever the data the selected mode needs is missing.
C13_MultiplierFiniteAndOneWhenMissing ==
    ~dieStale =>
        \A y \in Years :
            /\ dieOut[y].multiplier # NullRatio
            /\ dieOut[y].multiplier[2] > 0
            /\ NeededDataMissing(y) => dieOut[y].multiplier = One

\* only the wage toggle on: a year whose wage or CPI entry is missing, and a year
\* whose CPI entry is 0
C13_Witness ==
    /\ ~dieStale /\ useRealWageScaling /\ ~useCpiAdjustment
    /\ \E y \in Years : NeededDataMissing(y) /\ dieOut[y].multiplier = One
    /\ \E y \in Years : inflationData.cpi_data[y] = 0 /\ medianRealWageData[y] > 0
                        /\ dieOut[y].multiplier = One

(***************************************************************************)
(* Properties of the violins (checked under SpecViolin)                    *)
(***************************************************************************)
\* the samples of a display series that the last run took as valid
SamplesOf(g) == ValidPrices(priceGroups[g], YMaxGpu(priceGroups))

\* the display series whose violin the last run drew
Drawn(g) == ~violinStale /\ violinOut[g].status = "violin"

\* every other display series with at least two valid samples got its violin
OtherGroupsDrawn(g) ==
    \A h \in DisplaySeries \ {g} : Len(SamplesOf(h)) >= 2 => violinOut[h].status = "violin"

Least(samples) == CHOOSE m \in Elements(samples) : \A v \in Elements(samples) : m <= v

Greatest(samples) == CHOOSE m \in Elements(samples) : \A v \in Elements(samples) : m >= v

\* C14 as stated: for every group of price samples, min, max and median are computed
\* whenever the group has at least 1 sample (a single sample gives min = median = max),
\* and q1 and q3 are computed only when it has at least 3 samples and are undefined
\* otherwise.
C14_StatsFromOneSample ==
    ~violinStale =>
        \A g \in DisplaySeries :
            LET samples == SamplesOf(g)
                stats == violinOut[g].stats
            IN  Len(samples) >= 1 =>
                   /\ stats.computed
                   /\ stats.min = Least(samples)
                   /\ stats.max = Greatest(samples)
                   /\ stats.min <= stats.median /\ stats.median <= stats.max
                   /\ (stats.q1 # NoNumber) <=> (Len(samples) >= 3)
                   /\ (stats.q3 # NoNumber) <=> (Len(samples) >= 3)

\* C15: a group with fewer than 2 valid price samples yields no density curve, raises
\* no exception (the loop ends for it with nothing, or with the too-few note), and
\* does not prevent the other groups from being processed.
C15_TooFewSamplesNoCurve ==
    ~violinStale =>
        \A g \in DisplaySeries :
            Len(SamplesOf(g)) < 2 =>
                /\ violinOut[g].status \in {"empty", "tooFew"}
                /\ violinOut[g].density = <<>>
                /\ violinOut[g].validDensityPoints = <<>>
                /\ OtherGroupsDrawn(g)

\* a display series with one valid sample beside a price that is no number, noted
\* as too few, and the other display series drawn
C15_Witness ==
    /\ ~violinStale
    /\ Len(priceGroups["3000"]) = 2 /\ Len(SamplesOf("3000")) = 1
    /\ violinOut["3000"].status = "tooFew"
    /\ violinOut["1600/2000"].status = "violin"
    /\ Len(violinOut["1600/2000"].density) >= 2

\* C16 as stated: for every sample set with at least 2 samples, the density
\* evaluation range starts at max(0, min(samples) - 2*bandwidth) and ends at
\* max(samples) + 2*bandwidth.
C16_RangeEndsAtMaxPlusTwoBandwidths ==
    \A g \in DisplaySeries :
        Drawn(g) =>
            LET samples == violinOut[g].validPrices
                bw == violinOut[g].bandwidth
            IN  /\ violinOut[g].yRangeStart = MathMax(0, Least(samples) - 2 * bw)
                /\ violinOut[g].yRangeEnd = Greatest(samples) + 2 * bw

\* C16 amended: the range starts at max(0, min(samples) - 2*bandwidth) and ends at
\* max(samples) + 2*bandwidth or at the maximum of the price axis (yMaxGpu),
\* whichever is smaller.
C16_RangeClampedToAxis ==
    \A g \in DisplaySeries :
        Drawn(g) =>
            LET samples == violinOut[g].validPrices
                bw == violinOut[g].bandwidth
                yMaxGpu == YMaxGpu(priceGroups)
                reach == Greatest(samples) + 2 * bw
            IN  /\ violinOut[g].yRangeStart = MathMax(0, Least(samples) - 2 * bw)
                /\ violinOut[g].yRangeEnd = IF reach <= yMaxGpu THEN reach ELSE yMaxGpu
                /\ violinOut[g].yRangeStart < violinOut[g].yRangeEnd

\* one violin whose range is cut at the axis maximum and starts at 0, another whose
\* range lies inside the axis on both sides
C16_Witness ==
    /\ \E g \in DisplaySeries :
          /\ Drawn(g)
          /\ Greatest(violinOut[g].validPrices) + 2 * violinOut[g].bandwidth
                > YMaxGpu(priceGroups)
          /\ violinOut[g].yRangeEnd = YMaxGpu(priceGroups)
          /\ violinOut[g].yRangeStart = 0
    /\ \E g \in DisplaySeries :
          /\ Drawn(g)
          /\ violinOut[g].yRangeStart > 0
          /\ violinOut[g].yRangeEnd < YMaxGpu(priceGroups)

\* the greatest density of a curve
TopDensity(density) ==
    CHOOSE m \in {d[2] : d \in Elements(density)} : \A d \in Elements(density) : d[2] <= m

\* the fixed fraction of the greatest density of a curve
FractionOfTop(density) == RoundDiv(TopDensity(density) * DensityFraction, Scale)

C18_BandwidthFloored ==
    ~violinStale =>
        \A g \in DisplaySeries :
            LET samples == SamplesOf(g)
                bw == violinOut[g].bandwidth
                sd == deviation(samples)
                scaled == RoundDiv((IF sd = NoNumber THEN 0 ELSE sd) * 3, 2)
            IN  Len(samples) >= 2 =>
                   /\ bw # NoNumber /\ bw > 0
                   /\ bw >= MinBandwidth /\ bw >= scaled
                   /\ bw = MinBandwidth \/ bw = scaled

\* one display series whose samples are all equal, drawn with the minimum bandwidth,
\* and one with spread samples, drawn with a larger one
C18_Witness ==
    /\ \E g \in DisplaySeries :
          /\ Drawn(g)
          /\ Least(violinOut[g].validPrices) = Greatest(violinOut[g].validPrices)
          /\ violinOut[g].bandwidth = MinBandwidth
    /\ \E g \in DisplaySeries :
          /\ Drawn(g)
          /\ violinOut[g].bandwidth > MinBandwidth

\* the orderings of a sequence
Orderings(samples) ==
    {[i \in 1..Len(samples) |-> samples[p[i]]] : p \in Permutations(1..Len(samples))}

\* C19 as stated: density estimation is order-independent: for every sample multiset,
\* any two orderings of the samples produce the identical sequence of (value,
\* density) pairs.
C19_OrderIndependent ==
    \A g \in DisplaySeries :
        Drawn(g) =>
            \A other \in Orderings(violinOut[g].validPrices) :
                EstimateAndDraw(other, YMaxGpu(priceGroups)).density = violinOut[g].density

\* C20 as stated: a run of the chart's render effect leaves specialFlagshipActive and
\* activeGenerations exactly as it received them.
C20_RenderLeavesTogglesAlone ==
    [][RenderCuda => /\ specialFlagshipActive' = specialFlagshipActive
                     /\ activeGenerations' = activeGenerations]_vars

(***************************************************************************)
(* Safety of the normalisation (checked under SpecCuda)                    *)
(***************************************************************************)
\* C29: whenever the CUDA chart does not skip a generation, the reference flagship it
\* normalises against has a non-null cudaCores > 0, for every dataset and toggle
\* state; no normalised value is computed with a zero, negative or missing divisor.
C29_ReferenceHasPositiveCores ==
    Ran =>
        \A s \in Generations(gpuData) :
            cudaOut[s].flagship # 0 =>
                LET F == gpuData[cudaOut[s].flagship].cudaCores
                IN  /\ F # NoNumber /\ F > 0
                    /\ \A m \in Elements(cudaOut[s].mapped) :
                          m.normalizedCores # NullRatio => m.normalizedCores[2] = F

\* a generation whose flagged record has 0 cores, drawn against another record of
\* positive core count, in the absolute view
C29_Witness ==
    /\ Ran /\ ~cudaProps.toggleMode
    /\ \E s \in Generations(gpuData) :
          /\ cudaOut[s].status = "drawn"
          /\ \E i \in RecordsOf(s) : gpuData[i].flagship /\ gpuData[i].cudaCores = 0
          /\ Positive(cudaOut[s].flagship)
          /\ \E m \in Elements(cudaOut[s].mapped) : m.normalizedCores # NullRatio

(***************************************************************************)
(* Order of the summary statistics (checked under SpecViolin)              *)
(***************************************************************************)
\* C30: for every group with at least 3 valid price samples, the computed summary
\* satisfies min <= q1 <= median <= q3 <= max, so the IQR box and both whiskers
\* never have negative extent.
C30_SummaryOrdered ==
    \A g \in DisplaySeries :
        (Drawn(g) /\ Len(violinOut[g].validPrices) >= 3) =>
            LET stats == violinOut[g].stats
            IN  /\ stats.computed
                /\ stats.q1 # NoNumber /\ stats.q3 # NoNumber
                /\ stats.min <= stats.q1
                /\ stats.q1 <= stats.median
                /\ stats.median <= stats.q3
                /\ stats.q3 <= stats.max

\* three distinct samples that come in descending order, summarised with a box of
\* positive extent and two whiskers of positive extent
C30_Witness ==
    \E g \in DisplaySeries :
        LET stats == violinOut[g].stats
            prices == violinOut[g].validPrices
        IN  /\ Drawn(g) /\ Len(prices) = 3
            /\ prices[1] > prices[2] /\ prices[2] > prices[3]
            /\ stats.min < stats.q1 /\ stats.q1 < stats.median
            /\ stats.median < stats.q3 /\ stats.q3 < stats.max

C22_RenderCompletes == vramError = NoError

\* the consoles of the catalogue with dedicated video memory that pass the year
\* filter, and those with unified memory
DedicatedConsoles == {PlayStation3, PS3Short}
UnifiedConsoles == {PlayStation4, XboxOne}

\* the full memory of the console of that name, in GB
FullMemory(name) ==
    LET d == CHOOSE c \in {consoleData[i] : i \in 1..Len(consoleData)} : c.name = name
    IN  IF Len(d.memory) = 2 THEN Ratio(d.memory[1], d.memory[2])
        ELSE IF Len(d.memory) = 1 THEN Ratio(d.memory[1], 1)
        ELSE Ratio(0, 1)

ClassesWithData ==
    {c \in Classes : \E i \in 1..Len(gpuData) : getTierFromModel(gpuData[i].model) = c}

RatLeq(x, y) == x[1] * y[2] <= y[1] * x[2]

\* a missing count reads as 0
CountOf(v) == IF v = NoNumber THEN 0 ELSE v

\* C24: the effective die size of a processed card is
\* dieSize * (0.3 + 0.7 * cudaCores / fullCudaCores) when the full core count is
\* positive and the full die size otherwise; for 0 <= cudaCores <= fullCudaCores it
\* lies between 30% and 100% of the die size; the displayed price per mm2 is the
\* adjusted price divided by the effective size exactly when the disabled-die
\* toggle is on, and by the full die size otherwise.
C24_EffectiveDieSize ==
    (areaOut.ran /\ areaOut.kept) =>
        LET dieSize == Ratio(dieCard.dieSizeMM2, 1)
            full == CountOf(dieCard.fullCudaCores)
            cores == CountOf(dieCard.cudaCores)
            effective == areaOut.effectiveDieSize
            adjusted == areaOut.adjustedMsrp
        IN  /\ effective =
                  IF full > 0
                  THEN RatMul(dieSize, RatAdd(<<3, 10>>, RatMul(<<7, 10>>, Ratio(cores, full))))
                  ELSE dieSize
            /\ (full > 0 /\ cores <= full) =>
                  RatLeq(RatMul(<<3, 10>>, dieSize), effective) /\ RatLeq(effective, dieSize)
            /\ adjusted = Ratio(dieCard.msrp * (IF useCpiAdjustment THEN 2 ELSE 1), 1)
            /\ areaOut.displayPricePerMM2 =
                  IF useEffectiveDieSize THEN RatDiv(adjusted, effective)
                  ELSE RatDiv(adjusted, dieSize)

\* a partly disabled die with the toggle on: the displayed price is over the
\* effective size, which is strictly between 30% and 100% of the die size
C24_Witness ==
    /\ areaOut.ran /\ areaOut.kept
    /\ useEffectiveDieSize
    /\ useCpiAdjustment
    /\ dieCard.cudaCores > 0
    /\ dieCard.cudaCores < dieCard.fullCudaCores
    /\ ~RatLeq(Ratio(dieCard.dieSizeMM2, 1), areaOut.effectiveDieSize)
    /\ ~RatLeq(areaOut.effectiveDieSize, RatMul(<<3, 10>>, Ratio(dieCard.dieSizeMM2, 1)))
    /\ areaOut.displayPricePerMM2 = RatDiv(areaOut.adjustedMsrp, areaOut.effectiveDieSize)
    /\ areaOut.displayPricePerMM2 # RatDiv(areaOut.adjustedMsrp, Ratio(dieCard.dieSizeMM2, 1))

(***************************************************************************)
(* Properties of the generation legends (checked under SpecLegend and      *)
(* SpecLegendFair)                                                         *)
(***************************************************************************)
\* C25: once the map is initialised, after any interleaving of legend clicks and
\* show-all clicks in the two charts, showAllCudaGenerations is true exactly when
\* the entry of every generation of the CUDA chart is true.
C25_ShowAllMatchesMap ==
    Initialised =>
        (showAllCudaGenerations <=>
            \A gen \in Generations(gpuData) : activeGenerations[gen] = "true")

\* C26: the synchronisation of the 1600 entry with the 2000 entry terminates: a run
\* of the effect leaves the two entries equal in the state it hands on, so the run
\* after an update issues none, and every pending run leads to a drawn chart with
\* equal entries: a toggle of the 1600 entry alone does not persist.
C26_SyncTerminates ==
    /\ [][RenderCuda =>
            specialFlagshipActive'["1600"] = specialFlagshipActive'["2000"]]_vars
    /\ cudaStale ~>
          (~cudaStale /\ specialFlagshipActive["1600"] = specialFlagshipActive["2000"])

\* a run of the effect has issued the update of the 1600 entry after the user
\* switched that entry alone: the entries are equal again, the re-render is pending
C26_Witness ==
    /\ cudaProps.ran
    /\ cudaStale
    /\ cudaProps.specialFlagshipActive["1600"] = "true"
    /\ cudaProps.specialFlagshipActive["2000"] = "false"
    /\ specialFlagshipActive["1600"] = "false"
    /\ specialFlagshipActive["2000"] = "false"

\* C27: in every state of activeGenerations the CUDA chart draws a generation
\* exactly when its legend entry is rendered as active.
C27_DrawnIffLegendActive ==
    cudaProps.ran =>
        \A s \in Generations(gpuData) :
            cudaOut[s].status \in {"drawn", "inactive"} =>
                (cudaOut[s].status = "drawn"
                    <=> LegendEntryActive(cudaProps.activeGenerations, s))

====
